---------------------------- MODULE Spec2Model ----------------------------
(***************************************************************************)
(* A model of the stock arbitrage bot: the arbitrage detector              *)
(* (arbitrage_logic.py), the sliding-window rate limiter (broker_apis.py)  *)
(* the real data stream with its per-source health tracking, cache        *)
(* fallback and simulated fallback (real_data_stream.py), and the run      *)
(* loop and the opportunity log of the two simulators (simulator.py,       *)
(* real_simulator.py), the interval the performance monitor recommends    *)
(* and the price simulator.                                                *)
(*                                                                         *)
(* The specifications of the module:                                       *)
(*   SpecDetect  one call of detect_arbitrage on inputs drawn in Init, and *)
(*               the call with the two snapshots swapped;                  *)
(*   SpecMetrics one call of calculate_portfolio_metrics;                  *)
(*   SpecRate    a sequence of RateLimiter.acquire() calls by one caller;  *)
(*   Spec        one RealDataStream: initialize() and polling cycles;      *)
(*   SpecFair    stream_prices on an initialized stream, its loop fair;    *)
(*   SpecQuotes  one call of get_real_time_prices for two symbols;         *)
(*   SpecStatus  an EnhancedSimulator's own stream next to the stream its  *)
(*               run() polls;                                              *)
(*   SpecSim     one run() of a Simulator or an EnhancedSimulator, with    *)
(*               stop(), failing saves and crashes;                        *)
(*   SpecSimFair SpecSim with a price stream that keeps delivering;        *)
(*   SpecMerged  merged_price_stream_real on one update of its stream;     *)
(*   SpecInterval one call of get_optimal_update_interval                  *)
(*               (performance_monitor.py);                                 *)
(*   SpecPrices  a sequence of PriceSimulator.update_prices calls          *)
(*               (data_stream.py).                                         *)
(*                                                                         *)
(* Numbers.  Python floats are modelled by exact integers: a price is a    *)
(* count of 1e-5 dollars, a threshold a count of thousandths.  The         *)
(* comparison diff/avg > t is evaluated exactly, by cross-multiplication.  *)
(* round(x, 4) is modelled by RoundHalfEven; no input of the model is an   *)
(* exact tie, where a binary float could round either way.                 *)
(***************************************************************************)
EXTENDS Integers, Sequences, FiniteSets, TLC

VARIABLES
    \* ---- detect_arbitrage (arbitrage_logic.py)
    prices1,        \* first argument of the call
    prices2,        \* second argument of the call
    threshold,      \* third argument of the call
    opportunities,  \* the list the call returned
    swapped,        \* the list the call with the snapshots swapped returned
    detectPc,       \* "call" before the call, "returned" after it,
                    \* "raised" if the call raised
    portfolio,      \* the argument of calculate_portfolio_metrics
    metrics,        \* the dict calculate_portfolio_metrics returned
    \* ---- RateLimiter (broker_apis.py)
    max_calls,      \* RateLimiter.max_calls
    calls,          \* RateLimiter.calls: the recorded timestamps
    now,            \* the clock, in seconds
    released,       \* history: the times at which acquire() returned
    waits,          \* history: how long each acquire() slept
    \* ---- RealDataStream (real_data_stream.py)
    brokers,        \* config["brokers"]: the configured sources, in order
    symbols,        \* the symbols the caller asks prices for
    fetch,          \* in SpecQuotes: how the fetch of each source goes in
                    \* the one call the specification makes
    simulation_mode,\* config["simulation_mode"]
    apis,           \* self.apis: the active sources, in dict order
    last_prices,    \* self.last_prices: source -> last good snapshot
    error_counts,   \* self.error_counts: source -> consecutive failures
    cycle,          \* the call of get_real_time_prices of the last step, if
                    \* it made one, and its result
    streaming,      \* stream_prices is running (suspended at its yield)
    iteration,      \* the local `iteration` of stream_prices
    update,         \* what stream_prices yielded in the last step, if it did
    streamLog,      \* history: for each cycle stream_prices has made, the
                    \* value of `iteration` and whether a result was yielded
    inits,          \* history: the number of initialize() calls
    recovered,      \* history: the sources whose last successful fetch came
                    \* after exactly max_errors_per_broker - 1 failures in a
                    \* row, with no failure to close a session since
    lastOp,         \* history: the operation that produced this state
    data_stream,    \* EnhancedSimulator.data_stream, the RealDataStream the
                    \* simulator creates for itself: its simulation mode,
                    \* self.apis and self.error_counts
    initialized,    \* the call of initialize() of the last step, if it made
                    \* one: what it returned and its working_apis
    merged,         \* what merged_price_stream_real made of the last update
                    \* of its stream: whether it yielded, and the item
    \* ---- Simulator (simulator.py), EnhancedSimulator (real_simulator.py)
    simKind,        \* the class of the simulator
    simPc,          \* run(): "idle" before it, "running" in its loop,
                    \* "ended" after it, "crashed" if the process was killed
    running,        \* self.running
    error_count,    \* self.error_count
    sim_opportunities, \* self.opportunities
    logFile,        \* the opportunity log on disk
    tmpFile,        \* the file "<log>.tmp" on disk
    backups,        \* the files "<log>.backup_<time>" on disk
    cycles,         \* history: the number of feeds the loop has processed
    nextId,         \* history: the number of the next record detected
    appended,       \* history: the records of the log the run began with,
                    \* then every record passed to _save_opportunities
    faulted,        \* history: a save met a persistence failure
    stopRequested,  \* history: stop() was called during run()
    endReason,      \* history: why the loop of run() was left
    lastCycle,      \* history: what the last step of the loop did
    \* ---- PerformanceMonitor (performance_monitor.py)
    base_interval,  \* Config.PRICE_UPDATE_INTERVAL, in milliseconds
    metrics_history,\* self.metrics_history: the cpu_percent and the
                    \* processing_time_ms of each PerformanceMetrics
    optimal_interval, \* what get_optimal_update_interval returned, in
                    \* milliseconds
    monitorPc,      \* "call" before that call, "returned" after it
    \* ---- PriceSimulator (data_stream.py)
    current_prices, \* self.current_prices: ticker -> base price, in cents
    updated_prices, \* what the last update_prices returned, in cents
    update_source,  \* the argument `source` of the last update_prices
    updates         \* history: the number of update_prices calls

detectVars == <<prices1, prices2, threshold, opportunities, swapped,
                detectPc, portfolio, metrics>>
rateVars == <<max_calls, calls, now, released, waits>>
streamVars == <<brokers, symbols, fetch, simulation_mode, apis, last_prices, error_counts,
                cycle, streaming, iteration, update, streamLog, inits,
                recovered, lastOp, data_stream, initialized,
                merged>>

simVars == <<simKind, simPc, running, error_count, sim_opportunities,
             logFile, tmpFile, backups, cycles, nextId, appended, faulted,
             stopRequested, endReason, lastCycle>>

monitorVars == <<base_interval, metrics_history, optimal_interval,
                 monitorPc>>
priceVars == <<current_prices, updated_prices, update_source, updates>>
toolVars == <<monitorVars, priceVars>>

vars == <<detectVars, rateVars, streamVars, simVars, toolVars>>

-----------------------------------------------------------------------------
(* Values of the detector's arguments.                                     *)

\* A Python value that is a number (int or float) or is not one.
Num(v) == [isnum |-> TRUE, val |-> v]
NotANumber == [isnum |-> FALSE, val |-> 0]

\* A Python dict: its keys and values.  A value that is no dict at all
\* (a list, None) has isdict = FALSE.
Dict(f) == [isdict |-> TRUE, items |-> f]
NotADict == [isdict |-> FALSE, items |-> <<>>]

Tickers == {"AAPL", "TSLA"}
\* A dict key that is not a str (an int key such as 7).
NonStrKey == "<int 7>"
Keys == Tickers \cup {NonStrKey}

IsStr(k) == k \in Tickers


\* Prices offered to the detector, in 1e-5 dollars: two non-positive ones,
\* an equal pair (100, 100), a pair 1% apart (100, 101), a pair whose
\* relative difference is exactly 1 (100, 300) and one beyond 1.5 (12, 100).
PriceValues == {-8, 0, 12, 100, 101, 300}
PriceCells == {Num(v) : v \in PriceValues} \cup {NotANumber}

\* Thresholds offered to the detector, in thousandths: negative, zero, the
\* tests' 0.005, the upper end 1 of the documented range, 1.5 beyond it, and
\* a value that is no number.
ThresholdValues == {-5, 0, 5, 1000, 1500}
ThresholdCells == {Num(v) : v \in ThresholdValues} \cup {NotANumber}

\* The number of entries of one snapshot that are malformed.
MaxDefects == 1

EntryOk(k, c) == IsStr(k) /\ c.isnum /\ c.val > 0
Defects(f) == Cardinality({k \in DOMAIN f : ~EntryOk(k, f[k])})

SnapshotInputs ==
    {Dict(f) : f \in {g \in UNION {[D -> PriceCells] : D \in SUBSET Keys} :
                        Defects(g) <= MaxDefects}}
    \cup {NotADict}

-----------------------------------------------------------------------------
(* arbitrage_logic.py                                                      *)

\* round(n / d, 0) for d > 0, ties to even: what Python's round does.
RoundHalfEven(n, d) ==
    LET q == n \div d
        r == n % d
    IN  IF 2 * r > d THEN q + 1
        ELSE IF 2 * r < d THEN q
        ELSE IF q % 2 = 0 THEN q ELSE q + 1

\* round(x, 4) of a price or a difference x given in 1e-5 dollars: the
\* result in 1e-4 dollars.
Round4(x) == RoundHalfEven(x, 10)

Abs(x) == IF x < 0 THEN 0 - x ELSE x
Min2(a, b) == IF a < b THEN a ELSE b
Max2(a, b) == IF a > b THEN a ELSE b

\* validate_price_data: a non-empty dict of str -> positive number.
ValidatePriceData_AcceptsZero(prices) ==
    /\ prices.isdict
    /\ DOMAIN prices.items # {}
    /\ \A k \in DOMAIN prices.items :
          /\ IsStr(k)
          /\ prices.items[k].isnum
          /\ ~(prices.items[k].val < 0)

ValidatePriceData(prices) ==
    /\ prices.isdict
    /\ DOMAIN prices.items # {}
    /\ \A k \in DOMAIN prices.items :
          /\ IsStr(k)
          /\ prices.items[k].isnum
          /\ ~(prices.items[k].val <= 0)

\* The threshold test of detect_arbitrage, line 81.
ThresholdRejected(t) == ~t.isnum \/ t.val <= 0

\* diff / avg > threshold with diff = |p1 - p2|, avg = (p1 + p2) / 2 and the
\* threshold t in thousandths: 2 * diff / (p1 + p2) > t / 1000, p1 + p2 > 0.
ExceedsThreshold_OrEqual(p1, p2, t) ==
    2 * Abs(p1 - p2) * 1000 >= t * (p1 + p2)

ExceedsThreshold(p1, p2, t) ==
    2 * Abs(p1 - p2) * 1000 > t * (p1 + p2)

\* Lines 114-115: the sides of the trade.
BuySource_AlwaysFirst(p1, p2) == "Source 1"

BuySource(p1, p2) == IF p1 < p2 THEN "Source 1" ELSE "Source 2"
SellSource(p1, p2) == IF p1 < p2 THEN "Source 2" ELSE "Source 1"

\* Line 130: round((sell_price - buy_price) / buy_price * 100, 4), in 1e-4
\* percent, of prices in 1e-5 dollars.
ProfitMargin(buy_price, sell_price) ==
    RoundHalfEven((sell_price - buy_price) * 1000000, buy_price)

\* The opportunity record of lines 113-131 (the timestamp left out).
\* Prices and differences are in 1e-4 dollars after round(., 4), the two
\* percentages in 1e-4 percent.
Opportunity(ticker, p1, p2) ==
    LET diff == Abs(p1 - p2)
        buy_price == Min2(p1, p2)
        sell_price == Max2(p1, p2)
    IN  [ticker |-> ticker,
         price_source_1 |-> Round4(p1),
         price_source_2 |-> Round4(p2),
         difference_abs |-> Round4(diff),
         difference_pct |-> RoundHalfEven(2 * diff * 1000000, p1 + p2),
         estimated_profit |-> Round4(diff),
         buy_source |-> BuySource(p1, p2),
         sell_source |-> SellSource(p1, p2),
         buy_price |-> Round4(buy_price),
         sell_price |-> Round4(sell_price),
         profit_margin |-> ProfitMargin(buy_price, sell_price)]

\* Lines 123-131 raise for the pair: the division by buy_price when the
\* lower price is 0.  The exception is caught at line 136 and the loop goes
\* on with the next ticker.
BodyRaises(p1, p2) == Min2(p1, p2) = 0

\* Line 86: the tickers both snapshots hold.
CommonTickers(p1, p2) == DOMAIN p1.items \cap DOMAIN p2.items

\* The tickers the loop of lines 95-138 appends an opportunity for.
QualifyingTickers(p1, p2, t) ==
    {k \in CommonTickers(p1, p2) :
        /\ p1.items[k].val + p2.items[k].val # 0
        /\ ExceedsThreshold(p1.items[k].val, p2.items[k].val, t.val)
        /\ ~BodyRaises(p1.items[k].val, p2.items[k].val)}

\* All the orders in which a set can be listed.
Orderings(S) ==
    {s \in [1..Cardinality(S) -> S] :
        \A i, j \in 1..Cardinality(S) : s[i] = s[j] => i = j}

\* detect_arbitrage: the lists it can return.  The loop runs over a Python
\* set of str, whose iteration order is not fixed by the inputs, so the
\* opportunities can come in any order.
DetectArbitrage(p1, p2, t) ==
    IF ~ValidatePriceData(p1) THEN {<<>>}
    ELSE IF ~ValidatePriceData(p2) THEN {<<>>}
    ELSE IF ThresholdRejected(t) THEN {<<>>}
    ELSE {[i \in DOMAIN order |->
              Opportunity(order[i], p1.items[order[i]].val,
                          p2.items[order[i]].val)] :
            order \in Orderings(QualifyingTickers(p1, p2, t))}

\* Lines 71 and 140-141: the body of detect_arbitrage is one try block whose
\* handler catches every exception and logs it; the early returns (lines 75,
\* 79, 83, 90) return the empty list.  No call raises.
DetectRaises_OnNoCommonTickers(p1, p2, t) ==
    /\ ValidatePriceData(p1) /\ ValidatePriceData(p2)
    /\ ~ThresholdRejected(t)
    /\ CommonTickers(p1, p2) = {}

DetectRaises(p1, p2, t) == FALSE

\* calculate_portfolio_metrics has not been called.
NotCalled == [status |-> "none"]

\* A monitor nobody asks, in the specifications that do not use one.
MonitorIdle ==
    /\ base_interval = 0
    /\ metrics_history = <<>>
    /\ optimal_interval = 0
    /\ monitorPc = "call"

\* A price simulator nobody updates, in the specifications that do not use
\* one.
PricesIdle ==
    /\ current_prices = <<>>
    /\ updated_prices = <<>>
    /\ update_source = "none"
    /\ updates = 0

ToolIdle == MonitorIdle /\ PricesIdle

\* The detector before any call, in the specifications that do not call it.
DetectIdle ==
    /\ portfolio = <<>>
    /\ metrics = NotCalled
    /\ prices1 = NotADict
    /\ prices2 = NotADict
    /\ threshold = NotANumber
    /\ opportunities = <<>>
    /\ swapped = <<>>
    /\ detectPc = "call"

\* A limiter nobody uses, in the specifications that do not use one.
RateIdle ==
    /\ max_calls = 1
    /\ calls = <<>>
    /\ now = 0
    /\ released = <<>>
    /\ waits = <<>>

\* A stream nobody polls, in the specifications that do not use one.
NoCycle ==
    [status |-> "none", feeds |-> <<>>, active |-> <<>>, polled |-> {},
     reused |-> {}, outcome |-> <<>>]
NoUpdate ==
    [yielded |-> FALSE, feeds |-> <<>>, iteration |-> 0,
     simulation_mode |-> FALSE, active_apis |-> <<>>]

\* No simulator holds a stream of its own.
NoStream == [simulation_mode |-> TRUE, apis |-> <<>>, error_counts |-> <<>>]

\* No call of initialize() in the last step; initialize() returned True
\* (lines 35, 43, 51, 54) with the sources working that passed the test of
\* line 46.
NotInitialized == [called |-> FALSE, result |-> FALSE, working_apis |-> {}]
InitReturned(working) ==
    [called |-> TRUE, result |-> TRUE, working_apis |-> working]

\* merged_price_stream_real has yielded nothing.
NoItem == [yielded |-> FALSE, feeds |-> <<>>]

StreamIdle ==
    /\ merged = NoItem
    /\ data_stream = NoStream
    /\ initialized = NotInitialized
    /\ merged = NoItem
    /\ brokers = <<>>
    /\ symbols = {}
    /\ fetch = <<>>
    /\ simulation_mode = TRUE
    /\ apis = <<>>
    /\ last_prices = <<>>
    /\ error_counts = <<>>
    /\ cycle = NoCycle
    /\ streaming = FALSE
    /\ iteration = 0
    /\ update = NoUpdate
    /\ streamLog = <<>>
    /\ inits = 0
    /\ recovered = {}
    /\ lastOp = "construct"

\* A file that does not exist, and a loop step that was not made.
Absent == [kind |-> "absent", data |-> <<>>]
NoStep ==
    [op |-> "none", processed |-> FALSE, saved |-> FALSE, fault |-> "none",
     before |-> Absent, intended |-> <<>>, batch |-> <<>>]

\* A simulator nobody runs, in the specifications that do not use one.
SimIdle ==
    /\ simKind = "Simulator"
    /\ simPc = "idle"
    /\ running = FALSE
    /\ error_count = 0
    /\ sim_opportunities = <<>>
    /\ logFile = Absent
    /\ tmpFile = Absent
    /\ backups = {}
    /\ cycles = 0
    /\ nextId = 1
    /\ appended = <<>>
    /\ faulted = FALSE
    /\ stopRequested = FALSE
    /\ endReason = "none"
    /\ lastCycle = NoStep

InitDetect ==
    /\ ToolIdle
    /\ RateIdle
    /\ StreamIdle
    /\ SimIdle
    /\ prices1 \in SnapshotInputs
    /\ prices2 \in SnapshotInputs
    /\ threshold \in ThresholdCells
    /\ opportunities = <<>>
    /\ swapped = <<>>
    /\ detectPc = "call"
    /\ portfolio = <<>>
    /\ metrics = NotCalled

\* One call detect_arbitrage(prices1, prices2, threshold), and the call
\* detect_arbitrage(prices2, prices1, threshold) on the same values.  Every exception
\* is caught inside the function (lines 136, 140): the call always returns.
Detect ==
    /\ detectPc = "call"
    /\ IF DetectRaises(prices1, prices2, threshold)
       THEN /\ detectPc' = "raised"
            /\ UNCHANGED <<opportunities, swapped>>
       ELSE /\ detectPc' = "returned"
            /\ opportunities' \in
                  DetectArbitrage(prices1, prices2, threshold)
            /\ swapped' \in DetectArbitrage(prices2, prices1, threshold)
    /\ UNCHANGED <<prices1, prices2, threshold, portfolio, metrics>>
    /\ UNCHANGED <<rateVars, streamVars, simVars, toolVars>>

NextDetect == Detect

SpecDetect == InitDetect /\ [][NextDetect]_vars

-----------------------------------------------------------------------------
(* arbitrage_logic.py: calculate_portfolio_metrics                         *)

\* The length of the lists the function is called with.
MaxOpportunities == 3

\* The opportunities of those lists: their ticker, estimated_profit (in 1e-4
\* dollars) and profit_margin (in 1e-4 percent; 0 is a margin that rounded
\* to 0.0).  The other fields are not read by the function.
ProfitValues == {10, 20}
MarginValues == {0, 100}
PortfolioEntries ==
    [ticker : Tickers, estimated_profit : ProfitValues,
     profit_margin : MarginValues]
PortfolioInputs ==
    UNION {[1..n -> PortfolioEntries] : n \in 0..MaxOpportunities}

\* None, and a value that is not None.
None == <<>>
Some(v) == <<v>>

\* max(iterable, key=...): the item kept is replaced only by an item with a
\* strictly greater key, so the first of the greatest is returned.
Replaces_OnTie(key, best) == key >= best

Replaces(key, best) == key > best

RECURSIVE SumOf(_, _)
\* sum(...) of the numbers s[i..].
SumOf(s, i) == IF i > Len(s) THEN 0 ELSE s[i] + SumOf(s, i + 1)

RECURSIVE MaxIndex(_, _, _)
\* The index max(...) returns for the keys `keys`, from item i on, the best
\* so far being item `best`.
MaxIndex(keys, i, best) ==
    IF i > Len(keys) THEN best
    ELSE MaxIndex(keys, i + 1,
                  IF Replaces(keys[i], keys[best]) THEN i ELSE best)

RECURSIVE TickerCounts(_, _, _)
\* Lines 174-178: ticker_counts, a dict kept as the list of its items in
\* insertion order, after the opportunities opps[i..] are counted.
TickerCounts(opps, i, counts) ==
    IF i > Len(opps) THEN counts
    ELSE LET t == opps[i].ticker
             known == \E k \in DOMAIN counts : counts[k].ticker = t
         IN  TickerCounts(opps, i + 1,
                IF known
                THEN [k \in DOMAIN counts |->
                        IF counts[k].ticker = t
                        THEN [ticker |-> t, count |-> counts[k].count + 1]
                        ELSE counts[k]]
                ELSE Append(counts, [ticker |-> t, count |-> 1]))

\* Lines 156-193.  No statement of the body raises for a list of
\* opportunity records; the handler of line 191 is not reached.
CalculatePortfolioMetrics(opps) ==
    IF opps = <<>>
    THEN [status |-> "returned",
          total_opportunities |-> 0,
          total_estimated_profit |-> 0,
          average_profit_margin |-> 0,
          max_profit_opportunity |-> None,
          most_active_ticker |-> None]
    ELSE LET profits == [i \in DOMAIN opps |-> opps[i].estimated_profit]
             profit_margins ==
                 SelectSeq([i \in DOMAIN opps |-> opps[i].profit_margin],
                           LAMBDA m : m # 0)
             ticker_counts == TickerCounts(opps, 1, <<>>)
             counts == [k \in DOMAIN ticker_counts |->
                           ticker_counts[k].count]
         IN  [status |-> "returned",
              total_opportunities |-> Len(opps),
              total_estimated_profit |-> SumOf(profits, 1),
              average_profit_margin |->
                  IF profit_margins # <<>>
                  THEN RoundHalfEven(SumOf(profit_margins, 1),
                                     Len(profit_margins))
                  ELSE 0,
              max_profit_opportunity |->
                  Some(opps[MaxIndex(profits, 1, 1)]),
              most_active_ticker |->
                  Some(ticker_counts[MaxIndex(counts, 1, 1)].ticker),
              most_active_ticker_count |->
                  counts[MaxIndex(counts, 1, 1)]]

InitMetrics ==
    /\ ToolIdle
    /\ RateIdle
    /\ StreamIdle
    /\ SimIdle
    /\ prices1 = NotADict
    /\ prices2 = NotADict
    /\ threshold = NotANumber
    /\ opportunities = <<>>
    /\ swapped = <<>>
    /\ detectPc = "call"
    /\ portfolio \in PortfolioInputs
    /\ metrics = NotCalled

\* One call calculate_portfolio_metrics(portfolio).
Metrics ==
    /\ metrics = NotCalled
    /\ metrics' = CalculatePortfolioMetrics(portfolio)
    /\ UNCHANGED <<prices1, prices2, threshold, opportunities, swapped,
                   detectPc, portfolio>>
    /\ UNCHANGED <<rateVars, streamVars, simVars, toolVars>>

NextMetrics == Metrics

SpecMetrics == InitMetrics /\ [][NextMetrics]_vars

-----------------------------------------------------------------------------
(* Claims about detect_arbitrage, checked under SpecDetect.  Their         *)
(* vocabulary is defined here from the claims' words, apart from the       *)
(* operators that model the code.                                          *)

\* A valid snapshot: a non-empty mapping of str symbols to positive numbers.
ValidSnapshot(p) ==
    /\ p.isdict
    /\ DOMAIN p.items # {}
    /\ \A k \in DOMAIN p.items :
          k \in Tickers /\ p.items[k].isnum /\ p.items[k].val > 0

\* |a - b| / ((a + b) / 2) > t / 1000 for positive a, b.
RelDiffAbove(a, b, t) ==
    (IF a < b THEN b - a ELSE a - b) * 2000 > t * (a + b)

\* The opportunities of the returned list that are for symbol k.
EmittedFor(k) == {i \in DOMAIN opportunities : opportunities[i].ticker = k}

ShouldEmit(k) ==
    /\ k \in DOMAIN prices1.items \cap DOMAIN prices2.items
    /\ RelDiffAbove(prices1.items[k].val, prices2.items[k].val, threshold.val)

\* C1: for two valid snapshots and a threshold t > 0, detect_arbitrage
\* returns exactly one opportunity for every symbol that is in both
\* snapshots with |p1-p2| / ((p1+p2)/2) > t, and none for any other symbol
\* (a symbol in one snapshot only, equal prices, a relative difference equal
\* to or below t).
C1_EmitsIffAboveThreshold ==
    (/\ detectPc = "returned"
     /\ ValidSnapshot(prices1) /\ ValidSnapshot(prices2)
     /\ threshold.isnum /\ threshold.val > 0)
    => \A k \in Keys :
          Cardinality(EmittedFor(k)) = IF ShouldEmit(k) THEN 1 ELSE 0

\* C1's case: a call on two valid snapshots that emitted one common symbol
\* and left out another common symbol, whose relative difference is exactly
\* the threshold.
C1_Witness ==
    /\ detectPc = "returned"
    /\ ValidSnapshot(prices1) /\ ValidSnapshot(prices2)
    /\ threshold.isnum /\ threshold.val > 0
    /\ \E k, m \in DOMAIN prices1.items \cap DOMAIN prices2.items :
          /\ EmittedFor(k) # {}
          /\ EmittedFor(m) = {}
          /\ prices1.items[m].val # prices2.items[m].val
          /\ (prices2.items[m].val - prices1.items[m].val) * 2000
                = threshold.val * (prices1.items[m].val + prices2.items[m].val)

\* A snapshot that is empty, no mapping of str symbols to numbers, or holds
\* a price <= 0.
RejectableSnapshot(p) ==
    \/ ~p.isdict
    \/ DOMAIN p.items = {}
    \/ \E k \in DOMAIN p.items :
          k \notin Tickers \/ ~p.items[k].isnum \/ p.items[k].val <= 0

\* C2: if either snapshot is empty, is no mapping of str symbols to numbers
\* or holds a price <= 0, the call returns (it does not raise) the empty
\* list: nothing is emitted for the other, valid symbols.
C2_InvalidSnapshotRejectsWholeCall ==
    (/\ detectPc # "call"
     /\ RejectableSnapshot(prices1) \/ RejectableSnapshot(prices2))
    => detectPc = "returned" /\ opportunities = <<>>

\* C2's case: the first snapshot holds a price <= 0 for one symbol and, for
\* another symbol, a valid price that is 1% away from the valid second
\* snapshot's, under the threshold 0.005; the call has returned.
C2_Witness ==
    /\ detectPc = "returned"
    /\ prices1.isdict /\ ValidSnapshot(prices2)
    /\ threshold = Num(5)
    /\ \E bad, good \in DOMAIN prices1.items :
          /\ bad \in Tickers /\ prices1.items[bad].isnum
          /\ prices1.items[bad].val <= 0
          /\ good \in DOMAIN prices2.items
          /\ prices1.items[good] = Num(100)
          /\ prices2.items[good] = Num(101)

\* C3: for every threshold outside 0 < t <= 1 (t <= 0, t > 1, or no number)
\* detect_arbitrage returns the empty list, whatever the snapshots hold.
C3_ThresholdOutsideRangeRejected ==
    (/\ detectPc = "returned"
     /\ \/ ~threshold.isnum
        \/ threshold.val <= 0
        \/ threshold.val > 1000)
    => opportunities = <<>>

\* C20: the call with the two snapshots swapped emits an opportunity for a
\* symbol if and only if the original call does, with buy_source and
\* sell_source exchanged and with profit_margin, difference_abs, buy_price
\* and sell_price unchanged.
C20_SwapExchangesSides ==
    detectPc = "returned" =>
        /\ \A k \in Keys :
              (\E i \in DOMAIN opportunities : opportunities[i].ticker = k)
              <=> (\E j \in DOMAIN swapped : swapped[j].ticker = k)
        /\ \A i \in DOMAIN opportunities : \A j \in DOMAIN swapped :
              opportunities[i].ticker = swapped[j].ticker =>
                  /\ swapped[j].buy_source = opportunities[i].sell_source
                  /\ swapped[j].sell_source = opportunities[i].buy_source
                  /\ swapped[j].buy_source # swapped[j].sell_source
                  /\ swapped[j].profit_margin = opportunities[i].profit_margin
                  /\ swapped[j].difference_abs
                        = opportunities[i].difference_abs
                  /\ swapped[j].buy_price = opportunities[i].buy_price
                  /\ swapped[j].sell_price = opportunities[i].sell_price

\* Both calls returned an opportunity for a symbol that is cheaper in the
\* second snapshot: the original call buys at "Source 2", the swapped call
\* at "Source 1".
C20_Witness ==
    /\ detectPc = "returned"
    /\ \E i \in DOMAIN opportunities : \E j \in DOMAIN swapped :
          /\ opportunities[i].ticker = swapped[j].ticker
          /\ opportunities[i].buy_source = "Source 2"
          /\ swapped[j].buy_source = "Source 1"
          /\ opportunities[i].price_source_1 > opportunities[i].price_source_2

\* The two input prices of the symbol of opportunity o, in 1e-5 dollars.
InputPrice1(o) == prices1.items[o.ticker].val
InputPrice2(o) == prices2.items[o.ticker].val
LowerInput(o) == Min2(InputPrice1(o), InputPrice2(o))
HigherInput(o) == Max2(InputPrice1(o), InputPrice2(o))

\* buy_source names the snapshot with the strictly lower input price and
\* sell_source the other one.
SidesFollowPrices(o) ==
    /\ InputPrice1(o) # InputPrice2(o)
    /\ o.buy_source = IF InputPrice1(o) < InputPrice2(o)
                      THEN "Source 1" ELSE "Source 2"
    /\ o.sell_source = IF InputPrice1(o) < InputPrice2(o)
                       THEN "Source 2" ELSE "Source 1"

\* r is n / d to the nearest unit (d > 0).
Nearest(r, n, d) == 2 * Abs(r * d - n) <= d

\* C21 as stated: in every opportunity emitted, buy_source names the
\* snapshot holding the strictly lower price and sell_source the other,
\* buy_price < sell_price, buy_price and sell_price are the two input prices
\* of the symbol (a record's price is in 1e-4 dollars, an input in 1e-5), and
\* profit_margin is (sell_price - buy_price) / buy_price * 100, strictly
\* positive.
C21_SidesPricesMargin ==
    detectPc = "returned" =>
        \A i \in DOMAIN opportunities :
            LET o == opportunities[i]
            IN  /\ SidesFollowPrices(o)
                /\ o.buy_price < o.sell_price
                /\ o.buy_price * 10 = LowerInput(o)
                /\ o.sell_price * 10 = HigherInput(o)
                /\ Nearest(o.profit_margin,
                           (HigherInput(o) - LowerInput(o)) * 1000000,
                           LowerInput(o))
                /\ o.profit_margin > 0

\* The two snapshots have no symbol in common.
NoCommonSymbol(p, q) == \A k \in DOMAIN p.items : k \notin DOMAIN q.items

\* C22: if the two snapshots are valid but share no symbol, the call
\* returns (it does not raise) the empty list, whatever the threshold.
C22_NoCommonSymbolReturnsEmpty ==
    (/\ detectPc # "call"
     /\ ValidSnapshot(prices1) /\ ValidSnapshot(prices2)
     /\ NoCommonSymbol(prices1, prices2))
    => detectPc = "returned" /\ opportunities = <<>>

\* C22's case: a call with a valid threshold on two valid snapshots, one
\* with AAPL only and one with TSLA only, has ended.
C22_Witness ==
    /\ detectPc # "call"
    /\ ValidSnapshot(prices1) /\ ValidSnapshot(prices2)
    /\ DOMAIN prices1.items = {"AAPL"}
    /\ DOMAIN prices2.items = {"TSLA"}
    /\ threshold = Num(5)

\* The opportunities of the list for ticker t, and the place a ticker is
\* first seen at.
CountFor(t) == Cardinality({i \in DOMAIN portfolio : portfolio[i].ticker = t})
FirstPlace(t) ==
    CHOOSE i \in DOMAIN portfolio :
        /\ portfolio[i].ticker = t
        /\ \A j \in 1..(i - 1) : portfolio[j].ticker # t

\* Opportunity i has the highest profit and is the first to have it.
FirstWithHighestProfit(i) ==
    /\ \A j \in DOMAIN portfolio :
          portfolio[j].estimated_profit <= portfolio[i].estimated_profit
    /\ \A j \in 1..(i - 1) :
          portfolio[j].estimated_profit < portfolio[i].estimated_profit

\* Ticker t has the highest count and is the first counted to have it.
FirstWithHighestCount(t) ==
    /\ CountFor(t) > 0
    /\ \A u \in Tickers : CountFor(u) <= CountFor(t)
    /\ \A u \in Tickers :
          (u # t /\ CountFor(u) = CountFor(t))
              => FirstPlace(t) < FirstPlace(u)

RECURSIVE ProfitOfFirst(_)
\* The sum of the profits of the first n opportunities of the list.
ProfitOfFirst(n) ==
    IF n = 0 THEN 0
    ELSE ProfitOfFirst(n - 1) + portfolio[n].estimated_profit

\* C26: for the empty list calculate_portfolio_metrics returns, without
\* error, count 0, total profit 0, average margin 0 and no max-profit and
\* most-active entry; for a list that is not empty, total_opportunities is
\* its length, total_estimated_profit the sum of the profits,
\* max_profit_opportunity the first-seen of the opportunities with the
\* highest profit and most_active_ticker the first-counted of the tickers
\* with the highest count.
C26_PortfolioMetrics ==
    metrics # NotCalled =>
        /\ metrics.status = "returned"
        /\ portfolio = <<>> =>
              /\ metrics.total_opportunities = 0
              /\ metrics.total_estimated_profit = 0
              /\ metrics.average_profit_margin = 0
              /\ metrics.max_profit_opportunity = None
              /\ metrics.most_active_ticker = None
        /\ portfolio # <<>> =>
              /\ metrics.total_opportunities = Len(portfolio)
              /\ metrics.total_estimated_profit
                    = ProfitOfFirst(Len(portfolio))
              /\ \E i \in DOMAIN portfolio :
                    /\ FirstWithHighestProfit(i)
                    /\ metrics.max_profit_opportunity = Some(portfolio[i])
              /\ \E t \in Tickers :
                    /\ FirstWithHighestCount(t)
                    /\ metrics.most_active_ticker = Some(t)

\* C26's case: the metrics of a list in which two different opportunities
\* share the highest profit, a third has a lower one, and the two tickers
\* do not have the same count.
C26_Witness ==
    /\ metrics # NotCalled
    /\ Len(portfolio) = 3
    /\ portfolio[1].estimated_profit < portfolio[2].estimated_profit
    /\ portfolio[2].estimated_profit = portfolio[3].estimated_profit
    /\ portfolio[2] # portfolio[3]
    /\ portfolio[1].ticker # portfolio[2].ticker
    /\ portfolio[1].ticker = portfolio[3].ticker

\* C34: the opportunities come in the key order of the first snapshot: when
\* prices1 lists AAPL before TSLA and both symbols qualify, the list
\* returned has AAPL at index 0 and TSLA at index 1 (places 1 and 2 of the
\* sequence), on every run.
C34_ResultInFirstSnapshotOrder ==
    (/\ detectPc = "returned"
     /\ ValidSnapshot(prices1) /\ ValidSnapshot(prices2)
     /\ threshold.isnum /\ threshold.val > 0
     /\ ShouldEmit("AAPL") /\ ShouldEmit("TSLA"))
    => /\ Len(opportunities) = 2
       /\ opportunities[1].ticker = "AAPL"
       /\ opportunities[2].ticker = "TSLA"

-----------------------------------------------------------------------------
(* broker_apis.py: RateLimiter                                             *)

\* The window of RateLimiter.acquire, in seconds.
Window == 60

\* The largest max_calls_per_minute a limiter of the model is built with,
\* and the number of acquire() calls of one behaviour.
MaxLimit == 2
MaxAcquires == 5

\* The caller's idle time before a call of acquire(), in seconds.
Gaps == {0, 10, 20, 30, 40, 50, 60}

SeqMin(s) == CHOOSE m \in {s[i] : i \in DOMAIN s} :
                \A i \in DOMAIN s : m <= s[i]

\* The calls acquire() keeps at time t: those younger than the window.
Retained_KeepAll(cs, t) == cs

Retained(cs, t) ==
    LET Young(c) == t - c < Window IN SelectSeq(cs, Young)

\* The time acquire() sleeps when called at time t with the retained calls
\* kept: 60 - (t - oldest) if the window is full and that is positive.
WaitTime_NoWait(kept, limit, t) == 0

WaitTime(kept, limit, t) ==
    IF Len(kept) >= limit
    THEN LET wait_time == Window - (t - SeqMin(kept))
         IN  IF wait_time > 0 THEN wait_time ELSE 0
    ELSE 0

\* The timestamp acquire() records for a call made at time t that slept
\* wait_time: `now`, read on entry.
RecordedTime(t, wait_time) == t

\* Line 53: self.calls.append(now), run by every call, after the sleep of
\* a call that had to wait.
RecordCall_SkipsWaited(kept, t, wait_time) ==
    IF wait_time > 0 THEN kept ELSE Append(kept, RecordedTime(t, wait_time))

RecordCall(kept, t, wait_time) == Append(kept, RecordedTime(t, wait_time))

InitRate ==
    /\ ToolIdle
    /\ DetectIdle
    /\ StreamIdle
    /\ SimIdle
    /\ max_calls \in 1..MaxLimit
    /\ calls = <<>>
    /\ now = 0
    /\ released = <<>>
    /\ waits = <<>>

\* One call of acquire(), gap seconds after the previous one returned.
Acquire(gap) ==
    /\ Len(released) < MaxAcquires
    /\ LET t == now + gap
           kept == Retained(calls, t)
           wait_time == WaitTime(kept, max_calls, t)
       IN  /\ calls' = RecordCall(kept, t, wait_time)
           /\ now' = t + wait_time
           /\ released' = Append(released, t + wait_time)
           /\ waits' = Append(waits, wait_time)
    /\ UNCHANGED max_calls
    /\ UNCHANGED <<detectVars, streamVars, simVars, toolVars>>

NextRate == \E gap \in Gaps : Acquire(gap)

SpecRate == InitRate /\ [][NextRate]_vars

\* The calls released in the 60 seconds that start at time t.
ReleasedIn(t) == {i \in DOMAIN released : t <= released[i] /\ released[i] < t + 60}

\* C4: for one limiter with limit N used by one caller at a time, the number
\* of calls released (acquire() returned) inside any rolling 60-second
\* interval never exceeds N.
C4_AtMostNPerWindow ==
    \A i \in DOMAIN released :
        Cardinality(ReleasedIn(released[i])) <= max_calls

\* The time at which the i-th acquire() was called.
Issued(i) == released[i] - waits[i]

\* The limiter holds no call younger than 60 seconds when the i-th acquire()
\* is called: the burst of calls that starts there is the limiter's first,
\* or comes after a pause.
BurstStartsAt(i) == i = 1 \/ Issued(i) - Issued(i - 1) >= 60

C32_RecordsReleaseTime ==
    released # <<>> =>
        /\ calls # <<>>
        /\ calls[Len(calls)] = released[Len(released)]
        /\ \A i \in DOMAIN calls :
              \E j \in DOMAIN released : calls[i] = released[j]

\* The limiter's record is the call times of the last calls made, in call
\* order.
RecordInCallOrder ==
    /\ Len(calls) <= Len(released)
    /\ \A k \in 0..(Len(calls) - 1) :
          calls[Len(calls) - k] = Issued(Len(released) - k)

\* C33: acquire() only delays.  Every call returns, after a suspension that
\* is finite (0 to 60 seconds); none raises and none is dropped; and each
\* call that returns adds exactly one timestamp to the limiter's record,
\* which holds the timestamps of the last calls in call order.
C33_AcquireOnlyDelays ==
    /\ [][/\ Len(released') = Len(released) + 1
          /\ Len(waits') = Len(waits) + 1
          /\ waits'[Len(waits')] \in 0..60
          /\ released'[Len(released')] >= now
          /\ Len(calls') >= 1
          /\ Len(calls') <= Len(calls) + 1
          /\ \A i \in 1..(Len(calls') - 1) :
                calls'[i] = calls[i + Len(calls) + 1 - Len(calls')]
          ]_vars
    /\ []RecordInCallOrder

\* C33's case: after a call that had to wait, the limiter's record holds
\* two timestamps and an older one has left it.
C33_Witness ==
    /\ Len(released) >= 4
    /\ Len(calls) = 2
    /\ \E i \in DOMAIN waits : waits[i] > 0

-----------------------------------------------------------------------------
(* real_data_stream.py: RealDataStream                                     *)

\* self.max_errors_per_broker
max_errors_per_broker == 5

\* The number of initialize() calls and of stream_prices iterations of one
\* behaviour.
MaxInits == 2
MaxIterations == 2

\* The sources a configuration can name, in the order of BrokerType, and
\* the configurations of the model.  yahoo_finance needs no key and is
\* always configured.
BrokerOrder == <<"alpaca", "yahoo_finance">>
BrokerNames == {BrokerOrder[i] : i \in DOMAIN BrokerOrder}
Configurations ==
    {SelectSeq(BrokerOrder, LAMBDA b : b \in S) :
        S \in {T \in SUBSET BrokerNames : "yahoo_finance" \in T}}

\* The symbols the stream is asked for.
Symbols == {"AAPL"}

\* What a source can report as the price of a symbol (0: a quote without bid
\* and ask), and what the simulator can draw for "BrokerA" and, with the
\* broker variance, for "BrokerB".
RawPrices == {0, 100, 101}
SimPricesA == {100}
SimPricesB == {100, 102}

\* What get_multiple_prices can return: a price for some of the symbols.
FetchesOf(syms, quotes) == UNION {[D -> quotes] : D \in SUBSET syms}
RawFetches == FetchesOf(Symbols, RawPrices)

\* How the `async with api` block of one source can go:
\*   "ok"         get_multiple_prices returned raw, the session closed;
\*   "raise"      __aenter__ or get_multiple_prices raised;
\*   "closefail"  get_multiple_prices returned raw, then __aexit__ raised.
\* (A failure to close after a fetch without a valid price is handled as
\* "raise" is: the block has raised already.)
OutcomesOf(fetches) ==
    {[kind |-> "ok", raw |-> r] : r \in fetches}
    \cup {[kind |-> "raise", raw |-> <<>>]}
    \cup {[kind |-> "closefail", raw |-> r] :
             r \in {q \in fetches : \E sym \in DOMAIN q : q[sym] > 0}}
Outcomes == OutcomesOf(RawFetches)

\* Calls that ask for two symbols: what a source can report for them.
TwoSymbols == {"AAPL", "TSLA"}
TwoSymbolQuotes == {0, 100}
TwoSymbolOutcomes == OutcomesOf(FetchesOf(TwoSymbols, TwoSymbolQuotes))

\* A snapshot: the prices, and where they were produced (history).
Snapshot(prices, origin) == [prices |-> prices, origin |-> origin]

\* Lines 95-98: the valid prices of a fetch.
ApiPrices_KeepAll(raw) == raw

ApiPrices(raw) ==
    LET valid == {sym \in DOMAIN raw : raw[sym] > 0}
    IN  [sym \in valid |-> raw[sym]]

\* The keys of self.apis.
Active == {apis[i] : i \in DOMAIN apis}

\* self.error_counts.get(name, 0)
CountOf(counts, name) == IF name \in DOMAIN counts THEN counts[name] ELSE 0

\* d[name] = value on a dict kept as a function.
DictSet(d, name, value) ==
    [n \in DOMAIN d \cup {name} |-> IF n = name THEN value ELSE d[n]]

\* all_prices[name] = snap on a dict kept as a list of its items: a new key
\* goes last, an old key keeps its place.
FeedSet(feeds, name, snap) ==
    IF \E i \in DOMAIN feeds : feeds[i].source = name
    THEN [i \in DOMAIN feeds |->
             IF feeds[i].source = name
             THEN [source |-> name, prices |-> snap.prices,
                   origin |-> snap.origin]
             ELSE feeds[i]]
    ELSE Append(feeds, [source |-> name, prices |-> snap.prices,
                        origin |-> snap.origin])

Remove(seq, name) == SelectSeq(seq, LAMBDA n : n # name)

\* Line 118: the test that disables a source.
DisableAt_OneEarly(count) == count >= max_errors_per_broker - 1

DisableAt(count) == count >= max_errors_per_broker

\* Lines 108-120: the except branch for source name.
OnFetchError(st, name, fresh) ==
    LET count == CountOf(st.error_counts, name) + 1
        cached == name \in DOMAIN st.last_prices
        disable == DisableAt(count)
    IN  [st EXCEPT
            !.error_counts = DictSet(st.error_counts, name, count),
            !.feeds = IF cached
                      THEN FeedSet(st.feeds, name, st.last_prices[name])
                      ELSE st.feeds,
            !.reused = IF cached /\ ~fresh THEN st.reused \cup {name}
                       ELSE st.reused,
            !.apis = IF disable THEN Remove(st.apis, name) ELSE st.apis,
            !.changed = disable]

\* Lines 100-104: the prices of source name are accepted.
OnFetchSuccess(st, name, api_prices) ==
    [st EXCEPT
        !.feeds = FeedSet(st.feeds, name, Snapshot(api_prices, "api")),
        !.last_prices = DictSet(st.last_prices, name,
                                Snapshot(api_prices, "api")),
        !.error_counts = DictSet(st.error_counts, name, 0)]

\* Lines 90-120: one pass of the loop body, for source name.
PollSource(st, name, o) ==
    LET api_prices == ApiPrices(o.raw)
        st1 == [st EXCEPT !.polled = st.polled \cup {name}]
    IN  IF o.kind = "raise" THEN OnFetchError(st1, name, FALSE)
        ELSE IF DOMAIN api_prices = {} THEN OnFetchError(st1, name, FALSE)
        ELSE IF o.kind = "ok" THEN OnFetchSuccess(st1, name, api_prices)
        ELSE OnFetchError(OnFetchSuccess(st1, name, api_prices), name, TRUE)

\* o gives the outcome of the fetch of each source that has a client; a
\* fetch without a client raises.
OutcomeOf(o, name) ==
    IF name \in DOMAIN o THEN o[name] ELSE [kind |-> "raise", raw |-> <<>>]

RECURSIVE PollLoop(_, _, _, _)
\* Lines 89-120: the loop `for name, api in self.apis.items()` over the
\* sources order[i..].  self.apis.pop(name) inside the loop changes the size
\* of the dict being iterated: the iterator's next step raises RuntimeError
\* ("dictionary changed size during iteration"), also after the last item.
PollLoop(st, order, i, o) ==
    IF st.changed THEN [st EXCEPT !.raised = TRUE]
    ELSE IF i > Len(order) THEN st
    ELSE PollLoop(PollSource(st, order[i], OutcomeOf(o, order[i])),
                  order, i + 1, o)

\* Lines 130-143: _get_simulated_prices, for the prices simA and simB that
\* PriceSimulator.update_prices draws for "BrokerA" and "BrokerB".
SimulatedFeeds_UnderBrokerNames(simA, simB) ==
    <<[source |-> "alpaca", prices |-> simA, origin |-> "sim"],
      [source |-> "yahoo_finance", prices |-> simB, origin |-> "sim"]>>

SimulatedFeeds(simA, simB) ==
    <<[source |-> "SimulatedBrokerA", prices |-> simA, origin |-> "sim"],
      [source |-> "SimulatedBrokerB", prices |-> simB, origin |-> "sim"]>>

RECURSIVE UpdateFeeds(_, _, _)
\* all_prices.update(more), from item i of more on.
UpdateFeeds(feeds, more, i) ==
    IF i > Len(more) THEN feeds
    ELSE UpdateFeeds(
            FeedSet(feeds, more[i].source,
                    Snapshot(more[i].prices, more[i].origin)),
            more, i + 1)

\* Line 123: too few sources, simulation is added.
NeedsSimulation_OnlyIfNone(feeds) == Len(feeds) < 1

NeedsSimulation(feeds) == Len(feeds) < 2

\* Line 89: the sources the loop runs over, self.apis.
PollOrder_AllConfigured(active, configured) == configured

PollOrder(active, configured) == active

\* Lines 83-120 of get_real_time_prices: the stream's state and the result
\* so far when the loop over the sources is left, for the outcomes o of the
\* fetches.  raised: the loop raised RuntimeError.
PollSources(o) ==
    LET st0 == [apis |-> apis, last_prices |-> last_prices,
                error_counts |-> error_counts, feeds |-> <<>>,
                polled |-> {}, reused |-> {}, raised |-> FALSE,
                changed |-> FALSE]
    IN  IF simulation_mode THEN st0
        ELSE PollLoop(st0, PollOrder(apis, brokers), 1, o)

\* The call reaches _get_simulated_prices: line 84 or line 125.
CallsSimulator(st) ==
    simulation_mode \/ (~st.raised /\ NeedsSimulation(st.feeds))

\* Lines 84 and 122-128: the result of get_real_time_prices, for the prices
\* the simulator draws if it is called.
WithSimulation(st, simA, simB) ==
    IF CallsSimulator(st)
    THEN [st EXCEPT
            !.feeds = UpdateFeeds(st.feeds, SimulatedFeeds(simA, simB), 1)]
    ELSE st

\* What the caller of get_real_time_prices sees, with the history of the
\* call: the sources active on entry, those fetched from, those whose
\* snapshot was taken from the cache of an earlier cycle, and each fetched
\* source's outcome.
CycleOf(st, o) ==
    [status |-> IF st.raised THEN "raised" ELSE "returned",
     feeds |-> IF st.raised THEN <<>> ELSE st.feeds,
     active |-> apis,
     polled |-> st.polled,
     reused |-> st.reused,
     outcome |-> [n \in st.polled |->
                    IF OutcomeOf(o, n).kind = "raise" THEN "raise"
                    ELSE IF DOMAIN ApiPrices(OutcomeOf(o, n).raw) = {}
                    THEN "empty"
                    ELSE OutcomeOf(o, n).kind]]

\* History: the sources whose last successful fetch ended a run of exactly
\* max_errors_per_broker - 1 failures, after the cycle c.
Recovered(c) ==
    (recovered \ {n \in c.polled : c.outcome[n] \in {"ok", "closefail"}})
    \cup {n \in c.polled :
            /\ c.outcome[n] = "ok"
            /\ CountOf(error_counts, n) = max_errors_per_broker - 1}

\* The simulator's draws for one call: one pair if it is not called.
NoDraw == [sym \in symbols |-> 0]
DrawsFor(st) ==
    IF CallsSimulator(st)
    THEN [symbols -> SimPricesA] \X [symbols -> SimPricesB]
    ELSE {<<NoDraw, NoDraw>>}

\* Lines 174-181: the feed stream_prices builds of one snapshot (the
\* timestamp, datetime.now() for every feed, left out).
StreamFeed(f, it) ==
    [source |-> f.source, prices |-> f.prices, iteration |-> it,
     origin |-> f.origin]

InitStream ==
    /\ ToolIdle
    /\ DetectIdle
    /\ RateIdle
    /\ SimIdle
    /\ brokers \in Configurations
    /\ symbols = Symbols
    /\ fetch = <<>>
    /\ data_stream = NoStream
    /\ initialized = NotInitialized
    /\ merged = NoItem
    /\ simulation_mode = (Len(brokers) < 2)
    /\ apis = <<>>
    /\ last_prices = <<>>
    /\ error_counts = <<>>
    /\ cycle = NoCycle
    /\ streaming = FALSE
    /\ iteration = 0
    /\ update = NoUpdate
    /\ streamLog = <<>>
    /\ inits = 0
    /\ recovered = {}
    /\ lastOp = "construct"

\* Line 48: too few sources passed the connection test.
TooFewWorking_OnlyIfNone(working) == Cardinality(working) < 1

TooFewWorking(working) == Cardinality(working) < 2

\* initialize(): lines 30-59.  working: the sources that pass
\* _test_api_connections.
InitializeEffect(working) ==
    IF simulation_mode
    THEN /\ UNCHANGED <<apis, simulation_mode>>
         /\ initialized' = InitReturned({})
    ELSE /\ apis' = brokers
         /\ simulation_mode' =
               (Len(brokers) < 2 \/ TooFewWorking(working))
         /\ initialized' =
               InitReturned(IF Len(brokers) < 2 THEN {} ELSE working)

Initialize(working) ==
    /\ inits < MaxInits
    /\ inits' = inits + 1
    /\ InitializeEffect(working)
    /\ cycle' = NoCycle
    /\ update' = NoUpdate
    /\ lastOp' = "initialize"
    /\ UNCHANGED <<merged, brokers, symbols, fetch, data_stream, last_prices, error_counts, streaming,
                   iteration, streamLog, recovered>>
    /\ UNCHANGED <<detectVars, rateVars, simVars, toolVars>>

\* A direct call of get_real_time_prices(symbols), by a caller that has not
\* started stream_prices.
PollCycle(o) ==
    /\ ~streaming
    /\ \E polled \in {PollSources(o)} :
       \E draw \in DrawsFor(polled) :
       \E st \in {WithSimulation(polled, draw[1], draw[2])} :
          /\ apis' = st.apis
          /\ last_prices' = st.last_prices
          /\ error_counts' = st.error_counts
          /\ cycle' = CycleOf(st, o)
          /\ recovered' = Recovered(CycleOf(st, o))
    /\ update' = NoUpdate
    /\ lastOp' = "get_real_time_prices"
    /\ initialized' = NotInitialized
    /\ UNCHANGED <<merged, brokers, symbols, fetch, data_stream, simulation_mode, streaming, iteration,
                   streamLog, inits>>
    /\ UNCHANGED <<detectVars, rateVars, simVars, toolVars>>

\* stream_prices up to its first iteration: lines 156-163.
StartStream(working) ==
    /\ ~streaming
    /\ inits < MaxInits
    /\ inits' = inits + 1
    /\ InitializeEffect(working)
    /\ streaming' = TRUE
    /\ iteration' = 0
    /\ streamLog' = <<>>
    /\ cycle' = NoCycle
    /\ update' = NoUpdate
    /\ lastOp' = "initialize"
    /\ UNCHANGED <<merged, brokers, symbols, fetch, data_stream, last_prices, error_counts, recovered>>
    /\ UNCHANGED <<detectVars, rateVars, simVars, toolVars>>

\* Lines 201-203: an exception of the cycle is caught inside the loop, which
\* goes on after a pause.
LoopGoesOn_EndsOnError(raised) == ~raised

LoopGoesOn(raised) == TRUE

\* Lines 193 and 201: `iteration += 1` follows the yield; a cycle that
\* raised goes to the handler and leaves `iteration` as it is.
NextIteration_Stuck(it, raised) == it

NextIteration(it, raised) == IF raised THEN it ELSE it + 1

\* One iteration of the loop of stream_prices, lines 166-203: a cycle, then
\* the yield; an exception of the cycle is caught, nothing is yielded and
\* `iteration` keeps its value.
StreamIteration(o) ==
    /\ streaming
    /\ iteration < MaxIterations
    /\ \E polled \in {PollSources(o)} :
       \E draw \in DrawsFor(polled) :
       \E st \in {WithSimulation(polled, draw[1], draw[2])} :
          /\ apis' = st.apis
          /\ last_prices' = st.last_prices
          /\ error_counts' = st.error_counts
          /\ cycle' = CycleOf(st, o)
          /\ recovered' = Recovered(CycleOf(st, o))
          /\ update' =
                IF st.raised THEN NoUpdate
                ELSE [yielded |-> TRUE,
                      feeds |-> [i \in DOMAIN st.feeds |->
                                   StreamFeed(st.feeds[i], iteration)],
                      iteration |-> iteration,
                      simulation_mode |-> simulation_mode,
                      active_apis |-> st.apis]
          /\ iteration' = NextIteration(iteration, st.raised)
          /\ streamLog' = Append(streamLog, [iteration |-> iteration,
                                             yielded |-> ~st.raised])
          /\ streaming' = LoopGoesOn(st.raised)
    /\ lastOp' = "stream_prices"
    /\ initialized' = NotInitialized
    /\ UNCHANGED <<merged, brokers, symbols, fetch, data_stream, simulation_mode, inits>>
    /\ UNCHANGED <<detectVars, rateVars, simVars, toolVars>>

Next ==
    \/ \E working \in SUBSET BrokerNames : Initialize(working)
    \/ \E working \in SUBSET BrokerNames : StartStream(working)
    \/ \E o \in [Active -> Outcomes] : PollCycle(o)
    \/ \E o \in [Active -> Outcomes] : StreamIteration(o)

Spec == InitStream /\ [][Next]_vars

\* What direct calls of get_real_time_prices have left behind when
\* stream_prices is called on an initialized stream: every source has
\* failed `count` times in a row, after one success (cached) or after none.
PriorCounts == {0, max_errors_per_broker - 1}
PriorCalls ==
    {[error_counts |-> [n \in BrokerNames |-> count],
      last_prices |-> IF cached
                      THEN [n \in BrokerNames |->
                              Snapshot([sym \in Symbols |-> 100], "api")]
                      ELSE <<>>] :
        count \in PriorCounts, cached \in BOOLEAN}

InitStreamCalled ==
    /\ ToolIdle
    /\ DetectIdle
    /\ RateIdle
    /\ SimIdle
    /\ brokers = BrokerOrder
    /\ symbols = Symbols
    /\ fetch = <<>>
    /\ data_stream = NoStream
    /\ initialized = InitReturned(BrokerNames)
    /\ merged = NoItem
    /\ simulation_mode = FALSE
    /\ apis = brokers
    /\ \E prior \in PriorCalls :
          /\ error_counts = prior.error_counts
          /\ last_prices = prior.last_prices
    /\ cycle = NoCycle
    /\ streaming = FALSE
    /\ iteration = 0
    /\ update = NoUpdate
    /\ streamLog = <<>>
    /\ inits = 1
    /\ recovered = {}
    /\ lastOp = "initialize"

NextStreaming ==
    \/ \E working \in SUBSET BrokerNames : StartStream(working)
    \/ \E o \in [Active -> Outcomes] : StreamIteration(o)

\* stream_prices is a coroutine the event loop resumes after each sleep
\* (lines 199, 202): a started stream makes its next iteration.
SpecFair ==
    /\ InitStreamCalled
    /\ [][NextStreaming]_vars
    /\ WF_vars(\E o \in [Active -> Outcomes] : StreamIteration(o))

\* EnhancedSimulator.__init__ (real_simulator.py, line 49) creates a
\* RealDataStream and keeps it as self.data_stream; run() (lines 124-128)
\* iterates merged_price_stream_real(...), which creates the RealDataStream
\* it polls (line 253 of real_data_stream.py).  The stream variables of the
\* model are the polled stream, data_stream is the simulator's own.
InitStatus ==
    /\ ToolIdle
    /\ DetectIdle
    /\ RateIdle
    /\ SimIdle
    /\ brokers = BrokerOrder
    /\ symbols = Symbols
    /\ fetch = <<>>
    /\ simulation_mode = FALSE
    /\ apis = <<>>
    /\ last_prices = <<>>
    /\ error_counts = <<>>
    /\ cycle = NoCycle
    /\ streaming = FALSE
    /\ iteration = 0
    /\ update = NoUpdate
    /\ streamLog = <<>>
    /\ inits = 0
    /\ recovered = {}
    /\ lastOp = "construct"
    /\ data_stream = [simulation_mode |-> Len(brokers) < 2,
                      apis |-> <<>>, error_counts |-> <<>>]
    /\ initialized = NotInitialized
    /\ merged = NoItem

\* EnhancedSimulator.initialize(): self.data_stream.initialize() (line 81 of
\* real_simulator.py).
EnhancedInitialize(working) ==
    /\ data_stream' =
          IF data_stream.simulation_mode THEN data_stream
          ELSE [data_stream EXCEPT
                   !.apis = brokers,
                   !.simulation_mode =
                       (Len(brokers) < 2 \/ Cardinality(working) < 2)]
    /\ cycle' = NoCycle
    /\ update' = NoUpdate
    /\ lastOp' = "simulator_initialize"
    /\ UNCHANGED <<merged, brokers, symbols, fetch, simulation_mode, apis,
                   last_prices, error_counts, streaming, iteration,
                   streamLog, inits, recovered, initialized>>
    /\ UNCHANGED <<detectVars, rateVars, simVars, toolVars>>

\* EnhancedSimulator.get_status(), lines 373 and 387: the entry
\* "data_stream" of the status (the other entries left out).
EnhancedGetStatus ==
    [data_stream |->
        [simulation_mode |-> data_stream.simulation_mode,
         active_apis |-> data_stream.apis,
         error_counts |-> data_stream.error_counts]]

NextStatus ==
    \/ \E working \in SUBSET BrokerNames : EnhancedInitialize(working)
    \/ \E working \in SUBSET BrokerNames : StartStream(working)
    \/ \E o \in [Active -> Outcomes] : StreamIteration(o)

SpecStatus == InitStatus /\ [][NextStatus]_vars

\* What calls of get_real_time_prices have left behind for one source: no
\* fetch yet, failures only, a success, or a success and then failures.
PriorOfSource ==
    {[count |-> c, cached |-> k] :
        c \in {0, max_errors_per_broker - 1}, k \in BOOLEAN}

\* One call get_real_time_prices(["AAPL", "TSLA"]) on a stream that
\* initialize() has given its two clients, for every way the two fetches of
\* the call can go.
InitQuotes ==
    /\ ToolIdle
    /\ DetectIdle
    /\ RateIdle
    /\ SimIdle
    /\ brokers = BrokerOrder
    /\ symbols = TwoSymbols
    /\ data_stream = NoStream
    /\ initialized = InitReturned(BrokerNames)
    /\ merged = NoItem
    /\ fetch \in [BrokerNames -> TwoSymbolOutcomes]
    /\ simulation_mode = FALSE
    /\ apis = brokers
    /\ \E prior \in [BrokerNames -> PriorOfSource] :
          /\ error_counts =
                [n \in {m \in BrokerNames : prior[m].count > 0} |->
                    prior[n].count]
          /\ last_prices =
                [n \in {m \in BrokerNames : prior[m].cached} |->
                    Snapshot([sym \in TwoSymbols |-> 100], "api")]
    /\ cycle = NoCycle
    /\ streaming = FALSE
    /\ iteration = 0
    /\ update = NoUpdate
    /\ streamLog = <<>>
    /\ inits = 1
    /\ recovered = {}
    /\ lastOp = "initialize"

PollQuotes == cycle.status = "none" /\ PollCycle(fetch)

NextQuotes == PollQuotes

SpecQuotes == InitQuotes /\ [][NextQuotes]_vars

\* Lines 265-276 of merged_price_stream_real: what is yielded for an update
\* with the feeds `feeds` of iteration it (nothing for an update without
\* feeds).
MergedFeeds_AllFeeds(feeds, it) ==
    IF Len(feeds) >= 2 THEN feeds
    ELSE IF Len(feeds) > 0
    THEN Append(feeds,
                [source |-> "SimulationFallback",
                 prices |-> [sym \in symbols |-> 100],
                 iteration |-> it, origin |-> "sim"])
    ELSE <<>>

MergedFeeds(feeds, it) ==
    IF Len(feeds) >= 2 THEN SubSeq(feeds, 1, 2)
    ELSE IF Len(feeds) > 0
    THEN Append(feeds,
                [source |-> "SimulationFallback",
                 prices |-> [sym \in symbols |-> 100],
                 iteration |-> it, origin |-> "sim"])
    ELSE <<>>

\* The updates stream_prices can hand to merged_price_stream_real: the
\* snapshots of the sources that gave one, in the order of self.apis, and,
\* when these are fewer than two, the two simulated snapshots, or none where
\* _get_simulated_prices returned {} (line 147).
GoodPrices == {100, 101}
RealResults ==
    UNION {{[i \in DOMAIN order |->
                [source |-> order[i], prices |-> pr[order[i]],
                 origin |-> "api"]] :
              pr \in [{order[i] : i \in DOMAIN order} ->
                         [Symbols -> GoodPrices]]} :
           order \in {SelectSeq(BrokerOrder, LAMBDA b : b \in S) :
                         S \in SUBSET BrokerNames}}
CycleResults ==
    UNION {IF NeedsSimulation(real)
           THEN {real}
                \cup {UpdateFeeds(real, SimulatedFeeds(simA, simB), 1) :
                         simA \in [Symbols -> SimPricesA],
                         simB \in [Symbols -> SimPricesB]}
           ELSE {real} :
           real \in RealResults}
Updates ==
    {[yielded |-> TRUE,
      feeds |-> [i \in DOMAIN result |-> StreamFeed(result[i], it)],
      iteration |-> it,
      simulation_mode |-> sim,
      active_apis |-> BrokerOrder] :
        result \in CycleResults, it \in 0..MaxIterations, sim \in BOOLEAN}

\* merged_price_stream_real has received an update of its stream.
InitMerged ==
    /\ ToolIdle
    /\ DetectIdle
    /\ RateIdle
    /\ SimIdle
    /\ brokers = BrokerOrder
    /\ symbols = Symbols
    /\ fetch = <<>>
    /\ data_stream = NoStream
    /\ initialized = NotInitialized
    /\ merged = NoItem
    /\ simulation_mode = FALSE
    /\ apis = brokers
    /\ last_prices = <<>>
    /\ error_counts = <<>>
    /\ cycle = NoCycle
    /\ streaming = TRUE
    /\ iteration = 0
    /\ update \in Updates
    /\ streamLog = <<>>
    /\ inits = 1
    /\ recovered = {}
    /\ lastOp = "stream_prices"

\* Lines 257-276: the body of the loop of merged_price_stream_real for the
\* update received (no max_duration).
Merge ==
    /\ lastOp = "stream_prices"
    /\ update.yielded
    /\ \E item \in {MergedFeeds(update.feeds, update.iteration)} :
          merged' = [yielded |-> item # <<>>, feeds |-> item]
    /\ lastOp' = "merged_price_stream_real"
    /\ UNCHANGED <<brokers, symbols, fetch, data_stream, initialized,
                   simulation_mode, apis, last_prices, error_counts, cycle,
                   streaming, iteration, update, streamLog, inits,
                   recovered>>
    /\ UNCHANGED <<detectVars, rateVars, simVars, toolVars>>

NextMerged == Merge

SpecMerged == InitMerged /\ [][NextMerged]_vars

-----------------------------------------------------------------------------
(* Claims about RealDataStream                                             *)

\* The step is a call of get_real_time_prices, direct or by stream_prices.
IsCycle(op) == op \in {"get_real_time_prices", "stream_prices"}

\* initialize() has created the clients of the configured sources.
ClientsCreated == Len(brokers) >= 2 /\ inits > 0

\* The source has been removed from self.apis.
Disabled(s) == ClientsCreated /\ s \notin Active

\* What one fetch of a cycle does to the count of its source.
CountsOneFetch(s) ==
    /\ cycle'.outcome[s] \in {"raise", "empty"}
          => CountOf(error_counts', s) = CountOf(error_counts, s) + 1
    /\ cycle'.outcome[s] = "ok" => CountOf(error_counts', s) = 0
    /\ (s \notin Active') <=>
          (CountOf(error_counts', s) >= max_errors_per_broker)

C6_FailureNeverAbortsCycle ==
    (cycle.status # "none" /\ ~simulation_mode) =>
        /\ cycle.status = "returned"
        /\ \A i \in DOMAIN cycle.active : cycle.active[i] \in cycle.polled

\* C7: once a source is disabled, no later cycle fetches from it and it does
\* not come back into the active list; only initialize() brings it back.
C7_DisabledStaysOut ==
    [][\A s \in BrokerNames :
          (Disabled(s) /\ lastOp' # "initialize")
              => (s \notin Active' /\ s \notin cycle'.polled)]_vars

\* A cycle made while a source is disabled: it polled the other source and
\* left the disabled one alone.
C7_Witness ==
    \E s \in BrokerNames :
        /\ Disabled(s)
        /\ cycle.status = "returned"
        /\ cycle.polled # {}
        /\ s \notin cycle.polled
        /\ \A i \in DOMAIN cycle.active : cycle.active[i] # s

\* The snapshots of a result that come from a source, and from the simulator.
RealFeeds(feeds) == {i \in DOMAIN feeds : feeds[i].origin = "api"}
SimFeeds(feeds) == {i \in DOMAIN feeds : feeds[i].origin = "sim"}

AtLeastTwoNamed(feeds) ==
    /\ Len(feeds) >= 2
    /\ \A i, j \in DOMAIN feeds :
          feeds[i].source = feeds[j].source => i = j
    /\ Cardinality(RealFeeds(feeds)) < 2 => SimFeeds(feeds) # {}

\* C8: every cycle result that is returned, and every update that is
\* yielded, has at least two snapshots under different names; when fewer
\* than two of them come from real sources, simulated snapshots are there.
C8_AtLeastTwoSnapshots ==
    /\ cycle.status = "returned" => AtLeastTwoNamed(cycle.feeds)
    /\ update.yielded => AtLeastTwoNamed(update.feeds)

\* A cycle outside simulation mode with one usable real snapshot, filled up
\* by the simulator.
C8_Witness ==
    /\ ~simulation_mode
    /\ cycle.status = "returned"
    /\ Cardinality(RealFeeds(cycle.feeds)) = 1
    /\ Cardinality(SimFeeds(cycle.feeds)) = 2

\* The names simulated data is published under.
SimulatedIds == {"SimulatedBrokerA", "SimulatedBrokerB", "SimulationFallback"}

SimulatedUnderSimulatedIds(feeds) ==
    \A i \in DOMAIN feeds :
        /\ feeds[i].origin = "sim" => feeds[i].source \in SimulatedIds
        /\ feeds[i].source \notin SimulatedIds => feeds[i].origin = "api"

\* C9: a snapshot made by the simulator carries a simulated id
\* (SimulatedBrokerA, SimulatedBrokerB, SimulationFallback), in the cycle
\* result, the yielded update and the merged stream; a snapshot under the
\* name of a real source, the cached ones included, holds prices that
\* source delivered.
C9_SimulatedDataLabelled ==
    /\ SimulatedUnderSimulatedIds(cycle.feeds)
    /\ SimulatedUnderSimulatedIds(update.feeds)
    /\ SimulatedUnderSimulatedIds(MergedFeeds(update.feeds, update.iteration))
    /\ \A n \in DOMAIN last_prices :
          n \in BrokerNames /\ last_prices[n].origin = "api"

\* An update is yielded with a real snapshot next to simulated ones.
C9_Witness ==
    /\ update.yielded
    /\ RealFeeds(update.feeds) # {}
    /\ SimFeeds(update.feeds) # {}

\* C10: a snapshot taken from the cache of an earlier cycle, in place of a
\* fetch that failed, is flagged stale in the cycle result and in the
\* update built from it.
C10_ReusedSnapshotFlaggedStale ==
    \A s \in cycle.reused :
        /\ \A i \in DOMAIN cycle.feeds :
              cycle.feeds[i].source = s
                  => ("stale" \in DOMAIN cycle.feeds[i]
                      /\ cycle.feeds[i].stale)
        /\ \A i \in DOMAIN update.feeds :
              update.feeds[i].source = s
                  => ("stale" \in DOMAIN update.feeds[i]
                      /\ update.feeds[i].stale)

\* get_status(): lines 222-231 (last_update, configured_brokers and
\* validation left out).
GetStatus ==
    [simulation_mode |-> simulation_mode,
     active_apis |-> apis,
     error_counts |-> error_counts]

\* C11: whenever a cycle result holds simulated snapshots, the mode reported
\* by get_status after the cycle, and the mode of the update yielded for the
\* cycle, is simulation: a result filled up by the simulator is never
\* reported as live.
C11_DegradedNeverReportedLive ==
    (cycle.status = "returned" /\ SimFeeds(cycle.feeds) # {}) =>
        /\ GetStatus.simulation_mode
        /\ update.yielded => update.simulation_mode

\* C14: unless it is cancelled, stream_prices keeps producing cycle results:
\* whatever the sources do (failures, cached fallbacks, disabled sources, a
\* cycle that raises), the stream that has yielded n updates eventually
\* yields the update of iteration n.
C14_StreamKeepsYielding ==
    \A n \in 0..(MaxIterations - 1) :
        (streaming /\ iteration = n)
            ~> (streaming /\ update.yielded /\ update.iteration = n
                /\ iteration = n + 1)

\* An update is yielded by a stream that has lost a source in an earlier
\* iteration, in a cycle that fell back on the cache of the other source.
C14_Witness ==
    /\ streaming
    /\ update.yielded
    /\ cycle.reused # {}
    /\ \E s \in BrokerNames : Disabled(s)

\* The cycles of the stream that yielded a result.
YieldingCycles == {i \in DOMAIN streamLog : streamLog[i].yielded}

\* C24: the iteration numbers of the results stream_prices yields are
\* strictly increasing, so none is used twice, also when cycles that raised
\* and yielded nothing lie between two results; the number is the one the
\* result and each of its feeds carry.
C24_IterationNumbersIncrease ==
    /\ \A i, j \in YieldingCycles :
          i < j => streamLog[i].iteration < streamLog[j].iteration
    /\ update.yielded =>
          /\ Len(streamLog) \in YieldingCycles
          /\ update.iteration = streamLog[Len(streamLog)].iteration
          /\ \A k \in DOMAIN update.feeds :
                update.feeds[k].iteration = update.iteration

\* Two results with a cycle between them that raised and yielded nothing.
C24_Witness ==
    /\ update.yielded
    /\ \E i, j, k \in DOMAIN streamLog :
          /\ i < j /\ j < k
          /\ i \in YieldingCycles
          /\ j \notin YieldingCycles
          /\ k \in YieldingCycles

\* The symbols of a fetch that came with a price above 0.
ValidQuotes(raw) == {sym \in DOMAIN raw : raw[sym] > 0}

AllPositive(prices) == \A sym \in DOMAIN prices : prices[sym] > 0

\* The snapshot published under the name s in a result (s is there).
FeedOf(feeds, s) ==
    feeds[CHOOSE i \in DOMAIN feeds : feeds[i].source = s]

HasFeed(feeds, s) == \E i \in DOMAIN feeds : feeds[i].source = s

\* C25: every price of every real-source snapshot of a cycle result, fresh
\* or from the cache, is above 0.  A symbol whose fetched price is missing
\* or <= 0 is left out of the snapshot, and when some other symbol of the
\* fetch has a valid price the fetch is no failure of the source: its
\* snapshot holds the valid prices, its count is 0 and it stays active.
C25_OnlyPositivePrices ==
    /\ \A i \in DOMAIN cycle.feeds :
          cycle.feeds[i].origin = "api" => AllPositive(cycle.feeds[i].prices)
    /\ \A n \in DOMAIN last_prices : AllPositive(last_prices[n].prices)
    /\ \A s \in cycle.polled :
          (fetch[s].kind = "ok" /\ ValidQuotes(fetch[s].raw) # {}) =>
              /\ CountOf(error_counts, s) = 0
              /\ s \in Active
              /\ cycle.status = "returned" =>
                    /\ HasFeed(cycle.feeds, s)
                    /\ DOMAIN FeedOf(cycle.feeds, s).prices
                          = ValidQuotes(fetch[s].raw)
                    /\ \A sym \in ValidQuotes(fetch[s].raw) :
                          FeedOf(cycle.feeds, s).prices[sym]
                             = fetch[s].raw[sym]

\* A result with the snapshot of a fetch that brought a price of 0 for AAPL
\* and a valid price for TSLA, next to a snapshot taken from the cache.
C25_Witness ==
    /\ cycle.status = "returned"
    /\ cycle.reused # {}
    /\ \E s \in cycle.polled :
          /\ fetch[s].kind = "ok"
          /\ DOMAIN fetch[s].raw = TwoSymbols
          /\ fetch[s].raw["AAPL"] = 0
          /\ fetch[s].raw["TSLA"] > 0
          /\ DOMAIN FeedOf(cycle.feeds, s).prices = {"TSLA"}

\* The names in the active list of a status.
ListedActive(status) ==
    {status.active_apis[i] : i \in DOMAIN status.active_apis}

\* C27: the status EnhancedSimulator.get_status reports describes the
\* stream that run() polls: once a source polled by run() has failed, the
\* status shows its raised error count, and a source that run()'s stream
\* has disabled is not in the status' active list.
C27_StatusDescribesPolledStream ==
    streaming =>
        \A s \in BrokerNames :
            /\ CountOf(error_counts, s) > 0 =>
                  CountOf(EnhancedGetStatus.data_stream.error_counts, s)
                     = CountOf(error_counts, s)
            /\ Disabled(s) =>
                  s \notin ListedActive(EnhancedGetStatus.data_stream)

\* The fetch of source s failed, or brought no valid price, in the cycle the
\* step makes.
FetchFails(s) ==
    /\ IsCycle(lastOp')
    /\ s \in cycle'.polled
    /\ cycle'.outcome[s] \in {"raise", "empty"}

\* The cycle of the step serves the last-good snapshot of s: it returns a
\* result that holds the snapshot under the name of s, and leaves the cache
\* of s as it was.
ServesLastGood(s) ==
    /\ cycle'.status = "returned"
    /\ HasFeed(cycle'.feeds, s)
    /\ FeedOf(cycle'.feeds, s).prices = last_prices[s].prices
    /\ s \in DOMAIN last_prices'
    /\ last_prices'[s] = last_prices[s]

\* C28: when the fetch of an active source S fails or brings no valid price
\* and S has a last-good snapshot, the result of that cycle holds the
\* snapshot unchanged under S's name, S's cache is unchanged and its count
\* is one higher, on every failing cycle up to the one that disables S,
\* after which get_status does not list S as active; when S has no
\* last-good snapshot, S is not in the result.
C28_FailureServesLastGood ==
    [][\A s \in BrokerNames :
          FetchFails(s) =>
              /\ CountOf(error_counts', s) = CountOf(error_counts, s) + 1
              /\ s \in DOMAIN last_prices => ServesLastGood(s)
              /\ CountOf(error_counts', s) >= max_errors_per_broker =>
                    \A i \in DOMAIN GetStatus'.active_apis :
                        GetStatus'.active_apis[i] # s
              /\ s \notin DOMAIN last_prices =>
                    ~HasFeed(cycle'.feeds, s)]_vars

\* The valid prices of the fetch of source s, in the call SpecQuotes makes.
ValidPricesOf(s) ==
    [sym \in ValidQuotes(fetch[s].raw) |-> fetch[s].raw[sym]]

\* The fetch of source s returned at least one valid price in the cycle the
\* step makes.
FetchReturnsValid(s) ==
    /\ IsCycle(lastOp')
    /\ s \in cycle'.polled
    /\ fetch[s].kind # "raise"
    /\ ValidQuotes(fetch[s].raw) # {}

\* The cache of source s is the same before and after the step.
CacheUnchanged(s) ==
    /\ s \in DOMAIN last_prices' <=> s \in DOMAIN last_prices
    /\ s \in DOMAIN last_prices => last_prices'[s] = last_prices[s]

\* C29: when the fetch of an active source S returns at least one valid
\* price, then after the cycle S's cache holds exactly the valid prices of
\* this fetch, S's count is 0, the result of the cycle holds that snapshot
\* under S's name, and the cache and the count of a source the cycle did
\* not fetch from are unchanged.
C29_SuccessReplacesCache ==
    [][\A s \in BrokerNames :
          FetchReturnsValid(s) =>
              /\ s \in DOMAIN last_prices'
              /\ last_prices'[s].prices = ValidPricesOf(s)
              /\ CountOf(error_counts', s) = 0
              /\ cycle'.status = "returned"
              /\ HasFeed(cycle'.feeds, s)
              /\ FeedOf(cycle'.feeds, s).prices = ValidPricesOf(s)
              /\ \A t \in BrokerNames \ cycle'.polled :
                    /\ CacheUnchanged(t)
                    /\ CountOf(error_counts', t) = CountOf(error_counts, t)
      ]_vars

\* The success update of source s: cache replaced by the valid prices of the
\* fetch, count reset to 0.  The failure update: count one higher, cache
\* unchanged.
SuccessUpdate(s) ==
    /\ s \in DOMAIN last_prices'
    /\ last_prices'[s].prices = ValidPricesOf(s)
    /\ CountOf(error_counts', s) = 0

FailureUpdate(s) ==
    /\ CountOf(error_counts', s) = CountOf(error_counts, s) + 1
    /\ CacheUnchanged(s)

\* C30: for each source a cycle fetches from, exactly one of the two updates
\* is applied, the success update or the failure update, and never both or
\* a part of each, also when closing the source's session fails after its
\* prices were accepted.
C30_SuccessOrFailureNotBoth ==
    [][IsCycle(lastOp') =>
          \A s \in cycle'.polled :
              /\ SuccessUpdate(s) \/ FailureUpdate(s)
              /\ ~(SuccessUpdate(s) /\ FailureUpdate(s))]_vars

\* The slots of a result that real sources leave open: the result needs two
\* snapshots.
MissingSlots(feeds) ==
    IF Cardinality(RealFeeds(feeds)) >= 2 THEN 0
    ELSE 2 - Cardinality(RealFeeds(feeds))

\* C31: the number of simulated snapshots in a cycle result is the number of
\* missing slots: one, for a result of exactly two snapshots, when exactly
\* one real source gave a usable snapshot; two when none did; none when two
\* or more did.
C31_OneSimulatedPerMissingSlot ==
    cycle.status = "returned" =>
        /\ Cardinality(SimFeeds(cycle.feeds)) = MissingSlots(cycle.feeds)
        /\ Cardinality(RealFeeds(cycle.feeds)) = 1 => Len(cycle.feeds) = 2

\* C35: after any sequence of initialize() and get_real_time_prices()
\* calls, every source in the active set has a consecutive-failure count
\* from 0 to K - 1: a source whose count has reached K is not in the active
\* set between two calls.
C35_ActiveCountBelowK ==
    \A s \in Active :
        /\ CountOf(error_counts, s) >= 0
        /\ CountOf(error_counts, s) < max_errors_per_broker

\* What initialize() has returned: True, and the stream is out of
\* simulation mode only if at least two sources were created and passed the
\* connection test.
InitializeReturnsTrue ==
    initialized.called =>
        /\ initialized.result = TRUE
        /\ ~simulation_mode =>
              /\ Cardinality(Active) >= 2
              /\ Cardinality(initialized.working_apis \cap Active) >= 2

\* Simulation mode, once on, stays on.
SimulationModeStays == simulation_mode => simulation_mode'

\* A cycle made in simulation mode returns simulated snapshots only and
\* leaves the active set, the failure counts and the caches as they were.
SimulatedCycle ==
    (simulation_mode /\ cycle'.status # "none") =>
        /\ cycle'.status = "returned"
        /\ cycle'.feeds # <<>>
        /\ RealFeeds(cycle'.feeds) = {}
        /\ UNCHANGED <<apis, error_counts, last_prices>>

\* C36: initialize() returns True on every path; when it has returned,
\* simulation_mode is false only if at least two configured sources were
\* created and passed the connection test; simulation_mode, once true,
\* stays true, and a cycle made while it is true returns simulated
\* snapshots only and changes neither the active set nor the failure counts
\* nor the caches.
C36_SimulationModeIsFinal ==
    /\ []InitializeReturnsTrue
    /\ [][SimulationModeStays /\ SimulatedCycle]_vars

\* initialize() has put a stream with two configured sources into
\* simulation mode because only one passed the test, and a cycle was made
\* in that mode.
C36_Witness ==
    /\ simulation_mode
    /\ Len(brokers) = 2
    /\ Len(apis) = 2
    /\ inits > 0
    /\ cycle.status = "returned"
    /\ Len(cycle.feeds) = 2

\* The feed has a source name and a price mapping.
IsFeed(f) == {"source", "prices"} \subseteq DOMAIN f

\* C37: an item merged_price_stream_real yields has exactly two feeds, each
\* with a source name and a price mapping: the first two feeds of the update
\* when it has two or more, the single feed and then one feed labelled
\* SimulationFallback when it has one; an update without a feed yields
\* nothing.
C37_MergedItemHasTwoFeeds ==
    lastOp = "merged_price_stream_real" =>
        /\ merged.yielded =>
              /\ Len(merged.feeds) = 2
              /\ \A i \in DOMAIN merged.feeds : IsFeed(merged.feeds[i])
        /\ Len(update.feeds) >= 2 =>
              /\ merged.yielded
              /\ merged.feeds = <<update.feeds[1], update.feeds[2]>>
        /\ Len(update.feeds) = 1 =>
              /\ merged.yielded
              /\ Len(merged.feeds) = 2
              /\ merged.feeds[1] = update.feeds[1]
              /\ merged.feeds[2].source = "SimulationFallback"
              /\ DOMAIN merged.feeds[2].prices = symbols
        /\ Len(update.feeds) = 0 => ~merged.yielded

\* An update of three feeds (one source and the two simulated ones) has
\* been cut to its first two.
C37_Witness ==
    /\ lastOp = "merged_price_stream_real"
    /\ Len(update.feeds) = 3
    /\ merged.yielded
    /\ Len(merged.feeds) = 2

\* An update of one feed has been completed with the fallback feed.
C37_WitnessFallback ==
    /\ lastOp = "merged_price_stream_real"
    /\ Len(update.feeds) = 1
    /\ merged.yielded
    /\ merged.feeds[2].source = "SimulationFallback"

-----------------------------------------------------------------------------
(* simulator.py: Simulator; real_simulator.py: EnhancedSimulator           *)

SimKinds == {"Simulator", "EnhancedSimulator"}

\* The caps of a run, small: the argument max_errors of run() (100 by
\* default), the length max_opportunities a log is cut to (10000 in the
\* program) and the length MAX_OPPORTUNITIES_IN_MEMORY the configuration
\* gives for the in-memory list (1000 in the program).
max_errors == 2
max_opportunities == 3
MAX_OPPORTUNITIES_IN_MEMORY == 2

\* The number of feeds one run processes, and of opportunities detect_arbitrage
\* finds in one feed.
MaxCycles == 2
MaxBatch == 2

\* The contents a log file can have: no content, a JSON list of records,
\* another JSON value, text that is no JSON, and the beginning of the JSON
\* text of a list (what a write that did not finish leaves).
Blank == [kind |-> "blank", data |-> <<>>]
JsonList(d) == [kind |-> "list", data |-> d]
JsonObject == [kind |-> "object", data |-> <<>>]
Garbage == [kind |-> "garbage", data |-> <<>>]
Partial(d) == [kind |-> "partial", data |-> d]

\* An opportunity record, by its number; meta: it carries the fields
\* simulation_type, iteration and runtime_seconds.
Record(id, meta) == [id |-> id, meta |-> meta]
NewRecords(first, n) == [i \in 1..n |-> Record(first + i - 1, FALSE)]

\* The logs a run can find: none, an empty file, a log an earlier run of the
\* same class wrote, a JSON object, and text that is no JSON.
InitialLogs(kind) ==
    {Absent, Blank, JsonList(<<Record(0, kind = "EnhancedSimulator")>>),
     JsonObject, Garbage}

\* What can go wrong in one save: reading the log raises IOError, open(.., "w")
\* raises, json.dump raises after part of the text is written, os.rename
\* raises, and the process is killed during the write or just after it.
PersistenceFailures == {"read_error", "open_error", "write_error",
                        "rename_error"}
Crashes == {"crash_write", "crash_after_write"}
Faults == {"none"} \cup PersistenceFailures \cup Crashes

\* existing_data[-max_opportunities:] when the list is longer than that.
LastN_KeepOldest(list, n) ==
    IF Len(list) > n THEN SubSeq(list, 1, n) ELSE list

LastN(list, n) ==
    IF Len(list) > n THEN SubSeq(list, Len(list) - n + 1, Len(list))
    ELSE list

\* Lines 160-180 of simulator.py (222-243 of real_simulator.py): the list
\* loaded from the log, and the log and the backups afterwards.  A log that
\* cannot be read or parsed is renamed aside; a JSON value that is no list
\* is replaced by the empty list.
LoadExisting(file, bks, fault) ==
    LET exists == file.kind # "absent"
        readFails == exists /\ (\/ fault = "read_error"
                                \/ file.kind \in {"garbage", "partial"})
        renamed == readFails /\ fault # "rename_error"
    IN  [existing |-> IF exists /\ ~readFails /\ file.kind = "list"
                      THEN file.data ELSE <<>>,
         file |-> IF renamed THEN Absent ELSE file,
         backups |-> IF renamed THEN bks \cup {file} ELSE bks]

\* Lines 246-251 of real_simulator.py: opp.update({...}) on every record of
\* the batch; Simulator has no such step.
AddMetadata(opps, kind) ==
    IF kind = "EnhancedSimulator"
    THEN [i \in DOMAIN opps |-> Record(opps[i].id, TRUE)]
    ELSE opps

\* with open(path, "w") as f: json.dump(new, f): the file at path afterwards,
\* old being its content before.
WriteFile(old, new, fault) ==
    IF fault = "open_error" THEN old
    ELSE IF fault \in {"write_error", "crash_write"} THEN Partial(new)
    ELSE JsonList(new)

\* _save_opportunities(opps) for a non-empty opps: the files afterwards, the
\* batch as the call leaves it and the list the call set out to write.
\* Simulator writes into the log itself (lines 192-193); EnhancedSimulator
\* writes "<log>.tmp" and renames it onto the log (lines 263-268).
SaveOpportunities(kind, file, tmp, bks, opps, fault) ==
    LET loaded == LoadExisting(file, bks, fault)
        batch == AddMetadata(opps, kind)
        new == LastN(loaded.existing \o batch, max_opportunities)
        written == fault \notin {"open_error", "write_error", "crash_write"}
        moved == written /\ fault \notin {"rename_error", "crash_after_write"}
    IN  IF kind = "Simulator"
        THEN [logFile |-> WriteFile(loaded.file, new, fault),
              tmpFile |-> tmp,
              backups |-> loaded.backups, batch |-> batch, intended |-> new]
        ELSE [logFile |-> IF moved THEN JsonList(new) ELSE loaded.file,
              tmpFile |-> IF moved THEN Absent
                          ELSE WriteFile(tmp, new, fault),
              backups |-> loaded.backups, batch |-> batch, intended |-> new]

\* Lines 197-199 (272-273): every exception of the save is caught and logged.
SaveRaises_Uncaught(fault) == fault \in PersistenceFailures

SaveRaises(fault) == FALSE

\* Line 93 (129): the loop is left when stop() has cleared self.running.
StopObserved_Never(run) == FALSE

StopObserved(run) == ~run

\* Line 97 (133): the loop is left when error_count has reached max_errors.
ErrorLimitReached(count) == count >= max_errors

\* What one feed brings into the loop: a feed _process_feeds rejects (lines
\* 123-130), a feed without opportunities, or a feed with n opportunities
\* whose save meets the fault.
CycleInputs ==
    {[feedOk |-> FALSE, n |-> 0, fault |-> "none"],
     [feedOk |-> TRUE, n |-> 0, fault |-> "none"]}
    \cup {[feedOk |-> TRUE, n |-> n, fault |-> f] :
             n \in 1..MaxBatch, f \in Faults}

InitSim ==
    /\ ToolIdle
    /\ DetectIdle
    /\ RateIdle
    /\ StreamIdle
    /\ simKind \in SimKinds
    /\ simPc = "idle"
    /\ running = FALSE
    /\ error_count = 0
    /\ sim_opportunities = <<>>
    /\ logFile \in InitialLogs(simKind)
    /\ tmpFile = Absent
    /\ backups = {}
    /\ cycles = 0
    /\ nextId = 1
    /\ appended = IF logFile.kind = "list" THEN logFile.data ELSE <<>>
    /\ faulted = FALSE
    /\ stopRequested = FALSE
    /\ endReason = "none"
    /\ lastCycle = NoStep

\* run() up to its loop: lines 85-90 (113-121).
RunSim ==
    /\ simPc = "idle"
    /\ simPc' = "running"
    /\ running' = TRUE
    /\ error_count' = 0
    /\ lastCycle' = NoStep
    /\ UNCHANGED <<simKind, sim_opportunities, logFile, tmpFile, backups,
                   cycles, nextId, appended, faulted, stopRequested,
                   endReason>>
    /\ UNCHANGED <<detectVars, rateVars, streamVars, toolVars>>

\* stop(), called while run() is in its loop: lines 221-227 (360-366).
StopSim ==
    /\ simPc = "running"
    /\ running
    /\ running' = FALSE
    /\ stopRequested' = TRUE
    /\ lastCycle' = NoStep
    /\ UNCHANGED <<simKind, simPc, error_count, sim_opportunities, logFile,
                   tmpFile, backups, cycles, nextId, appended, faulted,
                   endReason>>
    /\ UNCHANGED <<detectVars, rateVars, streamVars, toolVars>>

\* The loop of run() is left, by break or because the stream has ended, and
\* the finally clause runs: lines 116-118 (161-162, 317).
LeaveLoop(reason) ==
    /\ simPc' = "ended"
    /\ running' = FALSE
    /\ endReason' = reason
    /\ lastCycle' = [NoStep EXCEPT !.op = reason]
    /\ UNCHANGED <<simKind, error_count, sim_opportunities, logFile, tmpFile,
                   backups, cycles, nextId, appended, faulted,
                   stopRequested>>

\* The price stream ends: its duration limit is reached or it is cancelled.
StreamEnds ==
    /\ simPc = "running"
    /\ LeaveLoop("stream_end")
    /\ UNCHANGED <<detectVars, rateVars, streamVars, toolVars>>

\* _process_feeds(feeds) raised: lines 104-111 (150-157).
CountError ==
    /\ error_count' = error_count + 1
    /\ UNCHANGED <<simPc, running, endReason>>

\* _process_feeds (lines 120-151; _process_price_feeds, 165-212) on a feed
\* with the opportunities opps, whose save meets the fault.
ProcessFeeds(opps, fault) ==
    \E res \in {SaveOpportunities(simKind, logFile, tmpFile, backups, opps,
                                  fault)} :
        /\ sim_opportunities' = sim_opportunities \o res.batch
        /\ logFile' = res.logFile
        /\ tmpFile' = res.tmpFile
        /\ backups' = res.backups
        /\ appended' = appended \o res.batch
        /\ faulted' = (faulted \/ fault # "none")
        /\ nextId' = nextId + Len(opps)
        /\ lastCycle' = [op |-> "cycle", processed |-> TRUE, saved |-> TRUE,
                         fault |-> fault, before |-> logFile,
                         intended |-> res.intended, batch |-> res.batch]
        /\ IF fault \in Crashes
           THEN /\ simPc' = "crashed"
                /\ UNCHANGED <<running, error_count, endReason>>
           ELSE IF SaveRaises(fault) THEN CountError
           ELSE UNCHANGED <<simPc, running, error_count, endReason>>

\* One pass of the loop of run(), lines 92-111 (124-157), for the feed the
\* stream delivers.
Cycle(in) ==
    /\ simPc = "running"
    /\ IF StopObserved(running) THEN LeaveLoop("stop")
       ELSE IF ErrorLimitReached(error_count) THEN LeaveLoop("max_errors")
       ELSE /\ cycles < MaxCycles
            /\ cycles' = cycles + 1
            /\ UNCHANGED <<simKind, stopRequested>>
            /\ IF in.feedOk /\ in.n > 0
               THEN ProcessFeeds(NewRecords(nextId, in.n), in.fault)
               ELSE /\ lastCycle' = [NoStep EXCEPT !.op = "cycle",
                                                   !.processed = TRUE]
                    /\ IF in.feedOk
                       THEN UNCHANGED <<simPc, running, error_count,
                                        endReason>>
                       ELSE CountError
                    /\ UNCHANGED <<sim_opportunities, logFile, tmpFile,
                                   backups, nextId, appended, faulted>>
    /\ UNCHANGED <<detectVars, rateVars, streamVars, toolVars>>

NextSim ==
    \/ RunSim
    \/ StopSim
    \/ StreamEnds
    \/ \E in \in CycleInputs : Cycle(in)

SpecSim == InitSim /\ [][NextSim]_vars

\* The price stream yields a feed every update interval: the loop of run()
\* makes its next pass.
SpecSimFair == SpecSim /\ WF_vars(\E in \in CycleInputs : Cycle(in))

-----------------------------------------------------------------------------
(* Claims about the simulators                                             *)

\* C12: the polling loop of run() ends only on an explicit stop, on a
\* cancellation or at the configured duration limit (the two ways the price
\* stream ends): no number of per-cycle errors makes it end on its own.
C12_LoopEndsOnlyOnStop ==
    simPc = "ended" => endReason \in {"stop", "stream_end"}

\* C13: after stop() is called while run() is in its loop, run() processes
\* no further feed (no detection, no append to the opportunity list or to
\* the log), and it ends at the next pass of the loop with running = FALSE.
C13_StopEndsRun ==
    /\ [][(stopRequested /\ simPc = "running") =>
              /\ simPc' = "ended"
              /\ ~running'
              /\ ~lastCycle'.processed
              /\ sim_opportunities' = sim_opportunities
              /\ logFile' = logFile
              /\ appended' = appended]_vars
    /\ (stopRequested /\ simPc = "running") ~> (simPc = "ended" /\ ~running)

\* A run that processed a feed was stopped and left its loop on the stop,
\* before it had used up its feeds.
C13_Witness ==
    /\ stopRequested
    /\ simPc = "ended"
    /\ endReason = "stop"
    /\ ~running
    /\ cycles > 0 /\ cycles < MaxCycles

\* The content of a log is corrupt: no JSON, or JSON that is no list.
Corrupt(file) == file.kind \in {"garbage", "partial", "object"}

\* The most recent n records of a sequence that has more than n.
MostRecent(seq, n) == [i \in 1..n |-> seq[Len(seq) - n + i]]

\* C15: starting from an absent or valid log and with no persistence
\* failure, after any sequence of _save_opportunities calls the log on disk
\* is the list of all appended records, field for field and in append
\* order, while they are at most max_opportunities, and the most recent
\* max_opportunities of them otherwise; it never holds more than that.
C15_LogIsCappedSuffix ==
    (/\ lastCycle.saved
     /\ ~faulted
     /\ ~Corrupt(lastCycle.before))
    => /\ logFile.kind = "list"
       /\ Len(logFile.data) <= max_opportunities
       /\ logFile.data = IF Len(appended) <= max_opportunities
                         THEN appended
                         ELSE MostRecent(appended, max_opportunities)

\* A save without failure that found a valid log and had to drop its oldest
\* record: more records were appended than the log may hold.
C15_Witness ==
    /\ lastCycle.saved
    /\ ~faulted
    /\ lastCycle.before.kind = "list"
    /\ Len(appended) > max_opportunities
    /\ logFile.kind = "list"
    /\ Len(logFile.data) = max_opportunities
    /\ logFile.data[max_opportunities] = appended[Len(appended)]

\* C16: a crash at any point of a save leaves the log on disk with the
\* content it had before the save or with the complete new content, never
\* empty, truncated or partly written (a corrupt earlier log may instead
\* have been moved to a backup); for the save of either simulator.
C16_CrashLeavesLogIntact ==
    simPc = "crashed" =>
        \/ logFile = lastCycle.before
        \/ logFile = JsonList(lastCycle.intended)
        \/ /\ Corrupt(lastCycle.before)
           /\ lastCycle.before \in backups
           /\ logFile = Absent

\* C17: whenever the existing log is corrupt or unparseable when a save
\* starts (invalid JSON, or content that is no list of records), the file
\* is renamed aside as a backup before the new log is written: its content
\* is not overwritten or dropped without a backup.  (Saves that meet no
\* persistence failure.)
C17_CorruptLogBackedUp ==
    (/\ lastCycle.saved
     /\ lastCycle.fault = "none"
     /\ Corrupt(lastCycle.before))
    => lastCycle.before \in backups

\* C18: a persistence failure during a save (read, write or rename error)
\* does not propagate out of _save_opportunities: the opportunities of the
\* cycle are in the in-memory list, error_count is not incremented and the
\* loop of run() goes on.
C18_SaveFailureContained ==
    [][(lastCycle'.saved /\ lastCycle'.fault \in PersistenceFailures) =>
          /\ error_count' = error_count
          /\ simPc' = "running"
          /\ running' = running
          /\ sim_opportunities' = sim_opportunities \o lastCycle'.batch]_vars

\* A save whose write failed: the records of the cycle are in memory and
\* not in the log, no error is counted and the loop is still running.
C18_Witness ==
    /\ lastCycle.saved
    /\ lastCycle.fault = "write_error"
    /\ simPc = "running"
    /\ error_count = 0
    /\ lastCycle.batch # <<>>
    /\ logFile # JsonList(lastCycle.intended)
    /\ \A i \in DOMAIN lastCycle.batch :
          \E j \in DOMAIN sim_opportunities :
              sim_opportunities[j] = lastCycle.batch[i]

\* C19: the in-memory opportunity list of a running simulator never holds
\* more than MAX_OPPORTUNITIES_IN_MEMORY records.
C19_MemoryListCapped ==
    Len(sim_opportunities) <= MAX_OPPORTUNITIES_IN_MEMORY

-----------------------------------------------------------------------------
(* performance_monitor.py: PerformanceMonitor.get_optimal_update_interval  *)

\* The number of PerformanceMetrics a history holds at most.
MaxHistory == 2

\* The base intervals, in milliseconds: those of Config, ProductionConfig,
\* DevelopmentConfig and TestingConfig, and a shorter one (the attribute is
\* not validated).
BaseIntervals == {50, 100, 500, 1000, 2000}

\* What collect_metrics can have measured: cpu_percent and
\* processing_time_ms on both sides of the thresholds of lines 205-209.
CpuPercents == {20, 30, 80, 90}
ProcessingTimes == {10, 20, 100, 150}
PerformanceMetrics ==
    [cpu_percent : CpuPercents, processing_time_ms : ProcessingTimes]
Histories == UNION {[1..n -> PerformanceMetrics] : n \in 0..MaxHistory}

\* Line 210: the minimum of the shortened interval, 0.1 s.
MinInterval == 100

\* Line 210: the interval returned when the system is fast and idle.
SpeedUp(base) ==
    IF (base * 8) \div 10 > MinInterval THEN (base * 8) \div 10
    ELSE MinInterval

\* Lines 197-212, for base_interval = base and metrics_history = history.
GetOptimalUpdateInterval(base, history) ==
    IF history = <<>> THEN base
    ELSE LET latest == history[Len(history)]
         IN  IF latest.cpu_percent > 80 THEN (base * 15) \div 10
             ELSE IF latest.processing_time_ms > 100
             THEN (base * 12) \div 10
             ELSE IF /\ latest.cpu_percent < 30
                     /\ latest.processing_time_ms < 20
             THEN SpeedUp(base)
             ELSE base

InitInterval ==
    /\ PricesIdle
    /\ DetectIdle
    /\ RateIdle
    /\ StreamIdle
    /\ SimIdle
    /\ base_interval \in BaseIntervals
    /\ metrics_history \in Histories
    /\ optimal_interval = 0
    /\ monitorPc = "call"

\* One call get_optimal_update_interval().
GetInterval ==
    /\ monitorPc = "call"
    /\ optimal_interval' =
          GetOptimalUpdateInterval(base_interval, metrics_history)
    /\ monitorPc' = "returned"
    /\ UNCHANGED <<base_interval, metrics_history>>
    /\ UNCHANGED <<detectVars, rateVars, streamVars, simVars, priceVars>>

NextInterval == GetInterval

SpecInterval == InitInterval /\ [][NextInterval]_vars

-----------------------------------------------------------------------------
(* Claims about PerformanceMonitor                                         *)

\* The latest metrics of the history.
Latest == metrics_history[Len(metrics_history)]

\* The latest metrics show load; the system is fast and idle.
UnderLoad == Latest.cpu_percent > 80 \/ Latest.processing_time_ms > 100
FastAndIdle == Latest.cpu_percent < 30 /\ Latest.processing_time_ms < 20

\* C38: get_optimal_update_interval returns the base interval when no
\* metrics exist; otherwise the value is at least the base interval when the
\* latest metrics show load (CPU > 80 or processing time > 100 ms) and at
\* most the base interval when the system is fast and idle (CPU < 30 and
\* processing time < 20 ms); for every base interval the value returned is
\* at least the minimum of 0.1 s.
C38_IntervalScaledAndClamped ==
    monitorPc = "returned" =>
        /\ metrics_history = <<>> => optimal_interval = base_interval
        /\ (metrics_history # <<>> /\ UnderLoad) =>
              optimal_interval >= base_interval
        /\ (metrics_history # <<>> /\ FastAndIdle) =>
              optimal_interval <= base_interval
        /\ optimal_interval >= MinInterval

-----------------------------------------------------------------------------
(* data_stream.py: PriceSimulator                                          *)

\* The number of update_prices calls of one behaviour.
MaxUpdates == 3

\* Config.STOCKS (its first two symbols) and Config.BROKER_NAMES.
STOCKS == {"AAPL", "TSLA"}
BROKER_NAMES == <<"BrokerA", "BrokerB">>

\* Config.MIN_STOCK_PRICE and Config.MAX_PRICE_CHANGE, in cents, and
\* Config.PRICE_VARIANCE_FACTOR, in percent.
MIN_STOCK_PRICE == 100
MAX_PRICE_CHANGE == 200
PRICE_VARIANCE_FACTOR == 2

\* The fallback price of line 81, in cents.
FallbackPrice == 10000

\* Amounts inside update_prices are counted in 1e-6 dollars.
Micro == 10000

\* What random.gauss(0, 0.01) and random.uniform(-PRICE_VARIANCE_FACTOR,
\* PRICE_VARIANCE_FACTOR) can draw, in percent.
ChangePcts == {-8, 0, 8}
Variances == {0 - PRICE_VARIANCE_FACTOR, PRICE_VARIANCE_FACTOR}

\* The base prices a simulator holds when a caller starts updating it, in
\* cents: INITIAL_PRICE_MIN, as drawn at construction, and prices that
\* long falls have brought down to the minimum or next to it.
StartPrices == {100, 150, 5000}

\* Lines 55-67: _simulate_price_movement for random.gauss = change_pct;
\* current_price in 1e-6 dollars, the result in cents.
SimulatePriceMovement(current_price, change_pct) ==
    LET change_amount == (current_price * change_pct) \div 100
        max_change == MAX_PRICE_CHANGE * Micro
        limited == Max2(0 - max_change, Min2(max_change, change_amount))
        new_price == Max2(MIN_STOCK_PRICE * Micro, current_price + limited)
    IN  RoundHalfEven(new_price, Micro)

\* Lines 79-81: a ticker without a base price gets the fallback price.
WithFallback(cur) ==
    [t \in STOCKS \cup DOMAIN cur |->
        IF t \in DOMAIN cur THEN cur[t] ELSE FallbackPrice]

\* Lines 84-90: the base price of ticker t for source, in 1e-6 dollars.
BasePrice(cur, t, source, variance) ==
    IF source = BROKER_NAMES[2]
    THEN cur[t] * (100 + variance) * (Micro \div 100)
    ELSE cur[t] * Micro

\* Line 96: the update of this source becomes the base price.
AdvancesBase_EveryBroker(source) == TRUE

AdvancesBase(source) == source = BROKER_NAMES[1]

\* Lines 76-99: the prices update_prices(source) returns for the draws
\* draw[t] of each ticker.
UpdatedPrices(cur, source, draw) ==
    [t \in STOCKS |->
        SimulatePriceMovement(
            BasePrice(WithFallback(cur), t, source, draw[t].variance),
            draw[t].change_pct)]

\* The draws of one call: the variance is drawn for the second broker only.
DrawsOf(source) ==
    [STOCKS -> [change_pct : ChangePcts,
                variance : IF source = BROKER_NAMES[2] THEN Variances
                           ELSE {0}]]

InitPrices ==
    /\ MonitorIdle
    /\ DetectIdle
    /\ RateIdle
    /\ StreamIdle
    /\ SimIdle
    /\ current_prices \in [STOCKS -> StartPrices]
    /\ updated_prices = <<>>
    /\ update_source = "none"
    /\ updates = 0

\* One call update_prices(source).  (The handler of lines 101-103 is not
\* reached: nothing in the block raises.)
UpdatePrices(source) ==
    /\ updates < MaxUpdates
    /\ updates' = updates + 1
    /\ update_source' = source
    /\ \E draw \in DrawsOf(source) :
       \E new \in {UpdatedPrices(current_prices, source, draw)} :
          /\ updated_prices' = new
          /\ current_prices' =
                IF AdvancesBase(source)
                THEN [t \in DOMAIN WithFallback(current_prices) |->
                        IF t \in STOCKS THEN new[t]
                        ELSE current_prices[t]]
                ELSE WithFallback(current_prices)
    /\ UNCHANGED <<detectVars, rateVars, streamVars, simVars, monitorVars>>

NextPrices ==
    \E i \in DOMAIN BROKER_NAMES : UpdatePrices(BROKER_NAMES[i])

SpecPrices == InitPrices /\ [][NextPrices]_vars

-----------------------------------------------------------------------------
(* Claims about PriceSimulator                                             *)

\* What update_prices has returned: one price for each configured stock, at
\* least MIN_STOCK_PRICE and so above zero.
OnePricePerStock ==
    updates > 0 =>
        /\ DOMAIN updated_prices = STOCKS
        /\ \A t \in STOCKS :
              /\ updated_prices[t] >= MIN_STOCK_PRICE
              /\ updated_prices[t] > 0

\* An update for the second broker leaves the base prices as they are; an
\* update for the primary broker makes the prices it returns the base
\* prices; nothing else changes them.
OnlyPrimaryAdvances ==
    /\ update_source' = "BrokerB" => current_prices' = current_prices
    /\ (updates' # updates /\ update_source' = "BrokerA") =>
          current_prices' = updated_prices'
    /\ current_prices' # current_prices => update_source' = "BrokerA"

\* C39: after any number of updates, update_prices returns exactly one
\* price per configured stock, each at least MIN_STOCK_PRICE (hence > 0); an
\* update for the second broker leaves current_prices unchanged, and only an
\* update for the primary broker advances them.
C39_PricesAtLeastMinimum ==
    /\ []OnePricePerStock
    /\ [][OnlyPrimaryAdvances]_vars

\* After an update for the primary broker, an update for the second broker
\* returned a price held up at the minimum, for a stock whose base price is
\* above it.
C39_Witness ==
    /\ updates >= 2
    /\ update_source = "BrokerB"
    /\ \E t \in STOCKS :
          /\ updated_prices[t] = MIN_STOCK_PRICE
          /\ current_prices[t] > MIN_STOCK_PRICE

=============================================================================
